---- MODULE Spec2Model ----
(***************************************************************************)
(* State-machine model of the OpenOMCI alarm synchronizer of pyvoltha      *)
(* (adapters/extensions/omci/state_machines/alarm_sync.py) together with   *)
(* the part of the alarm database (database/alarm_db_ext.py) it drives.    *)
(*                                                                         *)
(* An alarm bitmap is a Python long.  It is represented here by the set of *)
(* exponents of its binary expansion: the set {223} is the integer 2^223,  *)
(* the empty set is 0.  "bitmap & (1 << p) != 0" is then "p \in bitmap".   *)
(***************************************************************************)
EXTENDS Integers, FiniteSets, Sequences, TLC

\* ------------------------------------------------------------------ bounds
\* the expected sequence counter is explored up to MaxSeq in Spec
MaxSeq == 1
\* timers that lost their handle (self._deferred was overwritten)
MaxOrphans == 1
\* audits ending in failure or differences that are counted in a row
MaxAudits == 2
\* alarm numbers 0..MaxDiffAlarmNo (and 223) of the bitmaps SpecDiff compares
MaxDiffAlarmNo == 2
\* resync tasks queued on the task runner at one time
MaxTasks == 1
\* the same bounds in SpecAdv, where the state changes and their events are followed
MaxAdvOrphans == 0
MaxAdvTasks == 2
MaxAdvAudits == 1

\* ------------------------------------------------------- program constants
\* range(224): number of alarm bits of a bitmap
AlarmBits == 224
\* the literal 223 of "1 << (223-alarm_no)"
TopBit == 223
\* the sequence counter wraps after this value
MaxSequenceValue == 255
\* the value the sequence counter wraps to
WrapSequenceValue == 1
DEFAULT_AUDIT_DELAY == 180
DEFAULT_TIMEOUT_RETRY == 15
\* the literal 5 of "reactor.callLater(5, self.audit_alarm)" after a reconciliation
ReconcileDelay == 5
\* number of arguments process_attr_diffs declares after self
ProcessAttrDiffsParams == 2
\* number of arguments reconcile_alarm_table passes to process_attr_diffs
ProcessAttrDiffsArgs == 3

\* ------------------------------------------------------------------ domains
DEFAULT_STATES == {"disabled", "starting", "auditing", "in_sync"}
Triggers == {"start", "audit_alarm", "sync_alarm", "success", "failure", "stop"}
TimerTriggers == {"audit_alarm", "sync_alarm", "success", "failure"}

\* RxEvent.Get_ALARM_Get and RxEvent.Alarm_Notification
RxEvents == {"Get_ALARM_Get", "Alarm_Notification"}

\* classes of the device's me_map that support alarm notifications and
\* define alarms (CircuitPack), and a class that does not (OntData)
AlarmClassIds == {6}
OtherClassIds == {2}
ClassIds == AlarmClassIds \cup OtherClassIds
\* the entity (instance) id of the managed entity that reports alarms
Entities == {0}
Keys == AlarmClassIds \X Entities

AlarmNos == 0..(AlarmBits - 1)
\* bitmaps of the notifications and audit results: no alarm raised, alarm
\* number 0 raised (wider bitmaps are compared in SpecDiff)
Bitmaps == {{}, {TopBit}}
\* an absent instance (the empty dict of query); no bitmap has exponent -1
NoEntry == {-1}
\* audit_delay values a synchronizer is constructed with
AuditDelays == {0, DEFAULT_AUDIT_DELAY}
\* sequence numbers a notification may carry
SeqNos == 0..(MaxSeq + 1)
\* failures of the key-value store seen by process_alarm_data
Faults == {"ok", "query", "set"}

VARIABLES
    state,                      \* self.state
    audit_delay,                \* self._audit_delay
    alarm_manager,              \* self._alarm_manager is not None
    last_alarm_sequence_value,  \* self._last_alarm_sequence_value
    deferred,                   \* self._deferred: "none", "called" or the trigger of the pending call
    deferred_delay,             \* seconds given to callLater for the pending call of self._deferred, 0 when none is pending
    orphans,                    \* pending reactor calls no attribute refers to: trigger -> count
    current_task,               \* self._current_task is not None
    task_deferred,              \* self._task_deferred is not None
    tasks,                      \* resync tasks of this synchronizer queued or running
    subscriptions,              \* events with a subscription in self._omci_cc_subscriptions
    device_in_db,               \* self._device_in_db
    alarm_db_in_sync,           \* self._device.alarm_db_in_sync
    db,                         \* alarm database: (class_id, entity_id) -> bitmap or NoEntry
    events,                     \* raise_alarm/clear_alarm calls scheduled by the last handler
    consecutive_audits,         \* history: audits ended in failure or differences since the last state other than 'auditing'
    diff_prev, diff_new,        \* SpecDiff: the two bitmaps compared
    diff_cleared, diff_raised,  \* SpecDiff: the alarm numbers computed from them
    diff_done,                  \* SpecDiff: the comparison was made
    db_kind,                    \* SpecDb: the class of the database object
    started,                    \* SpecDb: self._started
    kv_store,                   \* SpecDb: the keys of self._kv_store and their values
    clock,                      \* SpecDb: datetime.utcnow()
    db_result,                  \* SpecDb: the last call, what it returned or raised
    adapter,                    \* SpecReg: the Adapter message handed to CoreProxy.register
    reg_result,                 \* SpecReg: the last register call, what it sent or raised
    onu,                        \* SpecTmpl: what the ONU and the template store answer
    template_result,            \* SpecTmpl: what create_template_instance did to self.deferred
    template_task,              \* SpecTmpl: the task's deferred, its generator, whether it was stopped
    lazy_data,                  \* SpecLazy: self._data, device_id -> version of the device's MIB
    lazymetadata,               \* SpecLazy: self._lazymetadata
    tickers,                    \* SpecLazy: running LoopingCalls of _check_dirty per device
    remote,                     \* SpecLazy: the records of the etcd store, device path -> version
    inflight,                   \* SpecLazy: etcd requests of _sync whose deferred has not fired
    lazy_result,                \* SpecLazy: the last call or callback and what it did
    agent_started,              \* SpecAgent: OpenOMCIAgent._started
    alarm_db,                   \* SpecAgent: OpenOMCIAgent._alarm_db is not None
    devices,                    \* SpecAgent: OpenOMCIAgent._devices, device_id -> entry
    entries,                    \* SpecAgent: the OnuDeviceEntry objects constructed so far
    agent_result,               \* SpecAgent: the last call of the agent and what it returned
    pending_queue,              \* SpecSched: TaskRunner._pending_queue, task ids in order
    running_queue,              \* SpecSched: TaskRunner._running_queue, the active slot
    task_table,                 \* SpecSched: the tasks handed to queue_task and their futures
    sched_result,               \* SpecSched: the last step of the runner or of a task
    mib_state,                  \* SpecMib: MibSynchronizer.state
    mib_task,                   \* SpecMib: the task the synchronizer has outstanding
    mib_result,                 \* SpecMib: the last trigger or callback and where it led
    advertise_events,           \* SpecAdv: AlarmSynchronizer._advertise_events
    advertised,                 \* SpecAdv: the events the last trigger put on the event bus
    facade_result               \* SpecFacade: the last request, what it returned or raised

vars == <<state, audit_delay, alarm_manager, last_alarm_sequence_value, deferred,
          deferred_delay,
          orphans, current_task, task_deferred, tasks, subscriptions, device_in_db,
          alarm_db_in_sync, db, events,
          consecutive_audits, diff_prev, diff_new, diff_cleared, diff_raised, diff_done,
          db_kind, started, kv_store, clock, db_result,
          adapter, reg_result, onu, template_result, template_task,
          lazy_data, lazymetadata, tickers, remote, inflight, lazy_result,
          agent_started, alarm_db, devices, entries, agent_result,
          pending_queue, running_queue, task_table, sched_result,
          mib_state, mib_task, mib_result, advertise_events, advertised,
          facade_result>>

dbvars == <<db_kind, started, kv_store, clock, db_result>>

\* no database object under test: the entity databases are exercised by SpecDb
DbIdle ==
    /\ db_kind = "MibDbExternal"
    /\ started = FALSE
    /\ kv_store = <<>>
    /\ clock = 0
    /\ db_result = [op |-> "none"]

regvars == <<adapter, reg_result>>

\* no adapter registers: CoreProxy.register is exercised by SpecReg
RegIdle ==
    /\ adapter = [currentReplica |-> 0, totalReplicas |-> 0]
    /\ reg_result = [op |-> "none"]

tmplvars == <<onu, template_result, template_task>>

\* no template task runs: MibTemplateTask is exercised by SpecTmpl
TmplIdle ==
    /\ onu = [reset |-> "none"]
    /\ template_result = [op |-> "none"]
    /\ template_task = [generator |-> "none"]

lazyvars == <<lazy_data, lazymetadata, tickers, remote, inflight, lazy_result>>

\* no lazy-write database: MibDbLazyWriteDict is exercised by SpecLazy
LazyIdle ==
    /\ lazy_data = <<>>
    /\ lazymetadata = <<>>
    /\ tickers = <<>>
    /\ remote = <<>>
    /\ inflight = {}
    /\ lazy_result = [op |-> "none"]

agentvars == <<agent_started, alarm_db, devices, entries, agent_result>>

\* an agent that manages no device: OpenOMCIAgent is exercised by SpecAgent
AgentIdle ==
    /\ agent_started = FALSE
    /\ alarm_db = FALSE
    /\ devices = <<>>
    /\ entries = <<>>
    /\ agent_result = [op |-> "none"]

schedvars == <<pending_queue, running_queue, task_table, sched_result>>

\* a task runner that was handed no task: it is exercised by SpecSched
SchedIdle ==
    /\ pending_queue = <<>>
    /\ running_queue = {}
    /\ task_table = <<>>
    /\ sched_result = [op |-> "none"]

mibvars == <<mib_state, mib_task, mib_result>>

\* a MIB synchronizer that was never started: it is exercised by SpecMib
MibIdle ==
    /\ mib_state = "disabled"
    /\ mib_task = [task |-> "none", timer |-> FALSE, cancelled |-> 0, retries |-> 0]
    /\ mib_result = [op |-> "none"]

advvars == <<advertise_events, advertised>>

\* the default of AlarmSynchronizer.__init__; advertising is followed by SpecAdv
AdvIdle ==
    /\ advertise_events = FALSE
    /\ advertised = <<>>

facadevars == <<facade_result>>

\* no request arrives: AdapterRequestFacade is exercised by SpecFacade
FacadeIdle == facade_result = [op |-> "none"]

latervars == <<schedvars, mibvars, advvars, facadevars>>

LaterIdle ==
    /\ SchedIdle
    /\ MibIdle
    /\ FacadeIdle
    /\ AdvIdle

\* the variables of the components added to the synchronizer and the databases
extvars == <<regvars, tmplvars, lazyvars, agentvars, latervars>>

ExtIdle ==
    /\ RegIdle
    /\ TmplIdle
    /\ LazyIdle
    /\ AgentIdle
    /\ LaterIdle

\* ---------------------------------------------------------- state machine
\* a table in which 'success' leads back to 'starting'
TransitionsSuccessToStarting ==
    << [trigger |-> "start",       source |-> "disabled", dest |-> "starting"],
       [trigger |-> "audit_alarm", source |-> "starting", dest |-> "auditing"],
       [trigger |-> "sync_alarm",  source |-> "starting", dest |-> "in_sync"],
       [trigger |-> "success",     source |-> "auditing", dest |-> "starting"],
       [trigger |-> "audit_alarm", source |-> "auditing", dest |-> "auditing"],
       [trigger |-> "failure",     source |-> "auditing", dest |-> "auditing"],
       [trigger |-> "audit_alarm", source |-> "in_sync",  dest |-> "auditing"],
       [trigger |-> "stop",        source |-> "*",        dest |-> "disabled"] >>

DEFAULT_TRANSITIONS ==
    << [trigger |-> "start",       source |-> "disabled", dest |-> "starting"],
       [trigger |-> "audit_alarm", source |-> "starting", dest |-> "auditing"],
       [trigger |-> "sync_alarm",  source |-> "starting", dest |-> "in_sync"],
       [trigger |-> "success",     source |-> "auditing", dest |-> "in_sync"],
       [trigger |-> "audit_alarm", source |-> "auditing", dest |-> "auditing"],
       [trigger |-> "failure",     source |-> "auditing", dest |-> "auditing"],
       [trigger |-> "audit_alarm", source |-> "in_sync",  dest |-> "auditing"],
       [trigger |-> "stop",        source |-> "*",        dest |-> "disabled"] >>

\* indices of the transitions a trigger has from a state
Matching(trig, st) ==
    {i \in 1..Len(DEFAULT_TRANSITIONS) :
        /\ DEFAULT_TRANSITIONS[i].trigger = trig
        /\ DEFAULT_TRANSITIONS[i].source \in {st, "*"}}

\* the trigger is valid in the state (otherwise Machine raises MachineError)
CanTrigger(trig, st) == Matching(trig, st) # {}

\* destination of the first matching transition
Dest(trig, st) ==
    DEFAULT_TRANSITIONS[CHOOSE i \in Matching(trig, st) :
                            \A j \in Matching(trig, st) : i <= j].dest

\* ------------------------------------------------------- sequence counter
\* a counter that wraps to 0
IncrementWrappingToZero(v) == (v + 1) % (MaxSequenceValue + 1)

increment_alarm_sequence(v) ==
    IF v + 1 > MaxSequenceValue THEN WrapSequenceValue ELSE v + 1

\* a reset that leaves the counter as it is
ResetKeepsValue(v) == v

reset_alarm_sequence(v) == IF v # 0 THEN 0 ELSE v

\* ------------------------------------------------------------ alarm bitmap
\* alarm numbers counted from the low end: bitmap & (1 << alarm_no) != 0
BitSetFromLowEnd(bitmap, alarm_no) == alarm_no \in bitmap

\* bitmap & (1 << (223-alarm_no)) != 0
BitSet(bitmap, alarm_no) == (TopBit - alarm_no) \in bitmap

\* {alarm_no for alarm_no in range(224) if bitmap & (1 << (223-alarm_no)) != 0}.
\* Only an alarm number 223 - p with p an exponent of the bitmap can pass the
\* bit test, so the numbers of range(224) are enumerated from those candidates.
RaisedIn(bitmap) ==
    {alarm_no \in {TopBit - p : p \in bitmap} :
        alarm_no \in AlarmNos /\ BitSet(bitmap, alarm_no)}

previously_raised(prev_bitmap) == RaisedIn(prev_bitmap)
currently_raised(bitmap) == RaisedIn(bitmap)
\* every alarm that was raised is reported cleared
AllPreviouslyRaised(prev_bitmap, bitmap) == previously_raised(prev_bitmap)

newly_cleared(prev_bitmap, bitmap) ==
    previously_raised(prev_bitmap) \ currently_raised(bitmap)
newly_raised(prev_bitmap, bitmap) ==
    currently_raised(bitmap) \ previously_raised(prev_bitmap)

\* ---------------------------------------------------------- alarm database
\* AlarmDbExternal.query(device_id, class_id, entity_id): the stored bitmap,
\* or NoEntry for the empty dict of an absent instance
Query(d, key) == d[key]

\* AlarmDbExternal.set(device_id, class_id, entity_id, {ALARM_BITMAP_KEY: bitmap})
DbSet(d, key, bitmap) == [d EXCEPT ![key] = bitmap]

\* AlarmDbExternal.delete(device_id, class_id, entity_id)
DbDelete(d, key) == [d EXCEPT ![key] = NoEntry]

\* the bitmap an instance stands for: an absent instance has no alarm raised
Stored(d, key) == IF d[key] = NoEntry THEN {} ELSE d[key]

\* ------------------------------------------------------------------ timers
NoOrphans == [t \in TimerTriggers |-> 0]

RECURSIVE SumOver(_, _)
SumOver(f, S) ==
    IF S = {} THEN 0
    ELSE LET x == CHOOSE y \in S : TRUE IN f[x] + SumOver(f, S \ {x})

OrphanCount(o) == SumOver(o, TimerTriggers)

\* self._deferred = reactor.callLater(delay, trigger): the call the attribute
\* referred to stays pending in the reactor when it had not been called
SetDeferred(s, trig) ==
    [s EXCEPT !.deferred = trig,
              !.orphans = IF s.deferred \in TimerTriggers
                          THEN [s.orphans EXCEPT ![s.deferred] = @ + 1]
                          ELSE s.orphans]

\* self._deferred = reactor.callLater(delay, self.<trig>)
callLater(s, delay, trig) == [SetDeferred(s, trig) EXCEPT !.delay = delay]

\* ---------------------------------------------------- synchronizer record
Self ==
    [state |-> state, audit_delay |-> audit_delay, alarm_manager |-> alarm_manager,
     seq |-> last_alarm_sequence_value, deferred |-> deferred, delay |-> deferred_delay,
     orphans |-> orphans,
     current_task |-> current_task, task_deferred |-> task_deferred, tasks |-> tasks,
     subscriptions |-> subscriptions, device_in_db |-> device_in_db,
     alarm_db_in_sync |-> alarm_db_in_sync, db |-> db, events |-> {},
     timeout_delay |-> DEFAULT_TIMEOUT_RETRY,
     audits |-> consecutive_audits, raised |-> FALSE]

Become(s) ==
    /\ state' = s.state
    /\ audit_delay' = s.audit_delay
    /\ alarm_manager' = s.alarm_manager
    /\ last_alarm_sequence_value' = s.seq
    /\ deferred' = s.deferred
    /\ deferred_delay' = s.delay
    /\ orphans' = s.orphans
    /\ current_task' = s.current_task
    /\ task_deferred' = s.task_deferred
    /\ tasks' = s.tasks
    /\ subscriptions' = s.subscriptions
    /\ device_in_db' = s.device_in_db
    /\ alarm_db_in_sync' = s.alarm_db_in_sync
    /\ db' = s.db
    /\ events' = s.events
    /\ consecutive_audits' = s.audits
    /\ UNCHANGED <<diff_prev, diff_new, diff_cleared, diff_raised, diff_done>>
    /\ UNCHANGED <<dbvars, extvars>>
    /\ OrphanCount(s.orphans) <= MaxOrphans
    /\ s.tasks <= MaxTasks
    /\ s.seq <= MaxSeq
    /\ s.audits <= MaxAudits


\* the empty alarm table
NoTable == [k \in Keys |-> NoEntry]
\* the alarm tables a resync task may read from the device
AlarmTables == [Keys -> Bitmaps \cup {NoEntry}]

\* ------------------------------------------------------ process_alarm_data
Event(kind, key, n) ==
    [kind |-> kind, class_id |-> key[1], entity_id |-> key[2], alarm_number |-> n]

\* reactor.callLater(0, self.clear_alarm, ...) for each newly cleared alarm
\* number and reactor.callLater(0, self.raise_alarm, ...) for each newly raised
Dispatch(prev_bitmap, bitmap, key) ==
    {Event("cleared", key, n) : n \in newly_cleared(prev_bitmap, bitmap)}
        \cup {Event("raised", key, n) : n \in newly_raised(prev_bitmap, bitmap)}

\* the notification's number compared with the counter before its increment
CheckSequenceBeforeIncrement(s, msg_seq_no) ==
    IF msg_seq_no > 0
    THEN LET s1 == [s EXCEPT !.seq = increment_alarm_sequence(s.seq)]
         IN IF s.seq # msg_seq_no /\ s1.audit_delay > 0
            THEN callLater(s1, 0, "audit_alarm")
            ELSE s1
    ELSE s

\* lines 460-466: the sequence check of a notification
check_sequence(s, msg_seq_no) ==
    IF msg_seq_no > 0
    THEN LET s1 == [s EXCEPT !.seq = increment_alarm_sequence(s.seq)]
         IN IF s1.seq # msg_seq_no /\ s1.audit_delay > 0
            THEN callLater(s1, 0, "audit_alarm")
            ELSE s1
    ELSE s

\* process_alarm_data that runs the sequence check on the -1 of a reconciliation
ProcessAlarmDataOfAnyNumber(s, key, bitmap, msg_seq_no, fault) ==
    LET s1 == check_sequence(s, IF msg_seq_no < 0 THEN 0 - msg_seq_no ELSE msg_seq_no)
        prev_entry == Query(s1.db, key)
        prev_bitmap == IF prev_entry = NoEntry THEN {} ELSE prev_entry
        s2 == [s1 EXCEPT !.db = IF fault = "set" THEN @ ELSE DbSet(@, key, bitmap)]
        evs == IF s2.alarm_manager THEN Dispatch(prev_bitmap, bitmap, key) ELSE {}
    IN IF fault = "query"
       THEN [s1 EXCEPT !.raised = TRUE]
       ELSE [s2 EXCEPT !.events = @ \cup evs]

\* lines 468-503.  fault = "query": the query of the previous entry raises and
\* the exception leaves process_alarm_data; fault = "set": the store raises
\* inside set, which is logged and swallowed
process_alarm_data(s, key, bitmap, msg_seq_no, fault) ==
    LET s1 == check_sequence(s, msg_seq_no)
        prev_entry == Query(s1.db, key)
        prev_bitmap == IF prev_entry = NoEntry THEN {} ELSE prev_entry
        s2 == [s1 EXCEPT !.db = IF fault = "set" THEN @ ELSE DbSet(@, key, bitmap)]
        evs == IF s2.alarm_manager THEN Dispatch(prev_bitmap, bitmap, key) ELSE {}
    IN IF fault = "query"
       THEN [s1 EXCEPT !.raised = TRUE]
       ELSE [s2 EXCEPT !.events = @ \cup evs]

\* on_alarm_notification: a class that is not in the me_map, has no
\* AlarmNotification or defines no alarms makes the handler return at once
on_alarm_notification(s, class_id, entity_id, bitmap, seq_no, fault) ==
    IF class_id \notin AlarmClassIds
    THEN s
    ELSE process_alarm_data(s, <<class_id, entity_id>>, bitmap, seq_no, fault)

\* --------------------------------------------------- reconcile_alarm_table
\* the three buckets of an audit result (None when empty)
OnuOnly(onu_db, olt_db) == {k \in Keys : onu_db[k] # NoEntry /\ olt_db[k] = NoEntry}
OltOnly(onu_db, olt_db) == {k \in Keys : onu_db[k] = NoEntry /\ olt_db[k] # NoEntry}
AttrDiffs(onu_db, olt_db) ==
    {k \in Keys : onu_db[k] # NoEntry /\ olt_db[k] # NoEntry /\ onu_db[k] # olt_db[k]}
NoDifference(onu_db, olt_db) ==
    OnuOnly(onu_db, olt_db) \cup OltOnly(onu_db, olt_db) \cup AttrDiffs(onu_db, olt_db) = {}

RECURSIVE process_onu_only_diffs(_, _, _)
process_onu_only_diffs(s, onu_only, onu_db) ==
    IF onu_only = {} THEN s
    ELSE LET k == CHOOSE x \in onu_only : TRUE
         IN process_onu_only_diffs(process_alarm_data(s, k, onu_db[k], -1, "ok"),
                                   onu_only \ {k}, onu_db)

RECURSIVE process_olt_only_diffs(_, _)
process_olt_only_diffs(s, olt_only) ==
    IF olt_only = {} THEN s
    ELSE LET k == CHOOSE x \in olt_only : TRUE
             s1 == process_alarm_data(s, k, {}, -1, "ok")
         IN process_olt_only_diffs([s1 EXCEPT !.db = DbDelete(@, k)], olt_only \ {k})

RECURSIVE process_attr_diffs(_, _, _)
process_attr_diffs(s, attr_diffs, onu_db) ==
    IF attr_diffs = {} THEN s
    ELSE LET k == CHOOSE x \in attr_diffs : TRUE
         IN process_attr_diffs(process_alarm_data(s, k, onu_db[k], -1, "ok"),
                               attr_diffs \ {k}, onu_db)

\* line 338: self.process_attr_diffs(attr_diffs, olt_db, onu_db) against the
\* signature of line 373; a call with a wrong number of arguments raises
\* TypeError before the body runs
call_process_attr_diffs(s, attr_diffs, onu_db) ==
    IF ProcessAttrDiffsArgs = ProcessAttrDiffsParams
    THEN process_attr_diffs(s, attr_diffs, onu_db)
    ELSE [s EXCEPT !.raised = TRUE]

reconcile_alarm_table(s, onu_db, olt_db) ==
    LET onu_only == OnuOnly(onu_db, olt_db)
        olt_only == OltOnly(onu_db, olt_db)
        attr_diffs == AttrDiffs(onu_db, olt_db)
        s0 == IF onu_only \cup olt_only \cup attr_diffs # {}
              THEN [s EXCEPT !.alarm_db_in_sync = FALSE] ELSE s
        s1 == IF onu_only # {} THEN process_onu_only_diffs(s0, onu_only, onu_db) ELSE s0
        s2 == IF olt_only # {} THEN process_olt_only_diffs(s1, olt_only) ELSE s1
    IN IF attr_diffs # {} THEN call_process_attr_diffs(s2, attr_diffs, onu_db) ELSE s2

\* ------------------------------------------------------- on_enter handlers
\* _cancel_deferred: the loop runs over [d1, d1]; d2, the task's deferred,
\* is dropped without being cancelled
cancel_deferred(s) == [s EXCEPT !.deferred = "none", !.delay = 0, !.task_deferred = FALSE]

\* Task.stop() of the current task: the task leaves the task runner and its
\* deferred no longer calls back
TaskStop(s) == [s EXCEPT !.tasks = @ - 1]

on_enter_disabled(s) ==
    LET s1 == cancel_deferred(s)
        s2 == IF s1.current_task THEN TaskStop(s1) ELSE s1
    IN [s2 EXCEPT !.current_task = FALSE, !.subscriptions = {}, !.audits = 0]

on_enter_starting(s) ==
    LET s1 == [s EXCEPT !.device_in_db = TRUE, !.subscriptions = RxEvents, !.audits = 0]
    IN IF s1.audit_delay > 0
       THEN callLater(s1, s1.timeout_delay, "audit_alarm")
       ELSE callLater(s1, 0, "sync_alarm")

on_enter_in_sync(s) ==
    LET s1 == [s EXCEPT !.audits = 0]
    IN IF s1.audit_delay > 0 THEN callLater(s1, s1.audit_delay, "audit_alarm") ELSE s1

on_enter_auditing(s) ==
    [s EXCEPT !.current_task = TRUE, !.task_deferred = TRUE, !.tasks = @ + 1]

on_enter(s) ==
    CASE s.state = "disabled" -> on_enter_disabled(s)
      [] s.state = "starting" -> on_enter_starting(s)
      [] s.state = "in_sync"  -> on_enter_in_sync(s)
      [] s.state = "auditing" -> on_enter_auditing(s)

\* a trigger of the Machine: an invalid one raises MachineError and changes nothing
Fire(s, trig) ==
    IF CanTrigger(trig, s.state)
    THEN on_enter([s EXCEPT !.state = Dest(trig, s.state)])
    ELSE [s EXCEPT !.raised = TRUE]

\* ------------------------------------------------ task deferred callbacks
success(s, onu_db) ==
    LET s1 == [s EXCEPT !.current_task = FALSE]
    IN IF NoDifference(onu_db, s1.db)
       THEN callLater([s1 EXCEPT !.alarm_db_in_sync = TRUE], 0, "success")
       ELSE LET s2 == reconcile_alarm_table([s1 EXCEPT !.audits = @ + 1], onu_db, s1.db)
            IN IF s2.raised THEN s2 ELSE callLater(s2, ReconcileDelay, "audit_alarm")

\* a failure callback that gives up instead of scheduling the retry
FailureWithoutRetry(s) == [s EXCEPT !.current_task = FALSE, !.audits = @ + 1]

failure(s) ==
    callLater([s EXCEPT !.current_task = FALSE, !.audits = @ + 1], s.timeout_delay, "failure")


\* ------------------------------------------------------------------ actions
Init ==
    /\ state = "disabled"
    /\ audit_delay \in AuditDelays
    /\ alarm_manager = FALSE
    /\ last_alarm_sequence_value = 0
    /\ deferred = "none"
    /\ deferred_delay = 0
    /\ orphans = NoOrphans
    /\ current_task = FALSE
    /\ task_deferred = FALSE
    /\ tasks = 0
    /\ subscriptions = {}
    /\ device_in_db = FALSE
    /\ alarm_db_in_sync = FALSE
    /\ db = NoTable
    /\ events = {}
    /\ consecutive_audits = 0
    /\ diff_prev = {}
    /\ diff_new = {}
    /\ diff_cleared = {}
    /\ diff_raised = {}
    /\ diff_done = FALSE
    /\ DbIdle
    /\ ExtIdle

\* start(): valid from 'disabled' only (MachineError otherwise)
Start ==
    /\ state = "disabled"
    /\ \E r \in {Fire(Self, "start")} : Become(r)

\* stop(): the wildcard transition, valid from every state
Stop == \E r \in {Fire(Self, "stop")} : Become(r)

\* set_alarm_params(mgr=...) with an alarm manager
SetAlarmParams ==
    /\ ~alarm_manager
    /\ \E r \in {[Self EXCEPT !.alarm_manager = TRUE]} : Become(r)

\* the reactor runs the pending call self._deferred refers to
FireDeferred ==
    /\ deferred \in TimerTriggers
    /\ \E r \in {Fire([Self EXCEPT !.deferred = "called", !.delay = 0], deferred)} : Become(r)

\* the reactor runs a pending call whose handle was overwritten
FireOrphanOf(trig) ==
    /\ orphans[trig] > 0
    /\ \E r \in {Fire([Self EXCEPT !.orphans[trig] = @ - 1], trig)} : Become(r)

FireOrphan == \E trig \in TimerTriggers : FireOrphanOf(trig)

\* an autonomous alarm notification is delivered to on_alarm_notification
Notification(class_id, entity_id, bitmap, seq_no, fault) ==
    /\ "Alarm_Notification" \in subscriptions
    /\ \E r \in {on_alarm_notification(Self, class_id, entity_id,
                                        bitmap, seq_no, fault)} : Become(r)

OnAlarmNotification ==
    \E class_id \in ClassIds, entity_id \in Entities, bitmap \in Bitmaps,
       seq_no \in SeqNos, fault \in Faults :
        /\ class_id \notin AlarmClassIds => (fault = "ok" /\ bitmap = {} /\ seq_no = 0)
        /\ Notification(class_id, entity_id, bitmap, seq_no, fault)

\* on_alarm_update_response: the handler of a response on the Get_ALARM_Get topic
on_alarm_update_response(s, is_get_all_alarms_response) ==
    IF "Get_ALARM_Get" \notin s.subscriptions THEN s
    ELSE IF s.state = "disabled" THEN s
    ELSE IF is_get_all_alarms_response THEN [s EXCEPT !.seq = reset_alarm_sequence(@)]
    ELSE s

\* a response is delivered on the Get_ALARM_Get topic
Response(is_get_all_alarms_response) ==
    /\ "Get_ALARM_Get" \in subscriptions
    /\ \E r \in {on_alarm_update_response(Self, is_get_all_alarms_response)} : Become(r)

OnAlarmUpdateResponse ==
    \E is_get_all_alarms_response \in BOOLEAN : Response(is_get_all_alarms_response)

\* the oldest queued resync task completes; onu_db is the alarm table it read
TaskSuccessWith(onu_db) ==
    /\ tasks > 0
    /\ \E r \in {success([Self EXCEPT !.tasks = @ - 1], onu_db)} : Become(r)

TaskSuccess == \E onu_db \in AlarmTables : TaskSuccessWith(onu_db)

\* the oldest queued resync task fails or times out
TaskFailure ==
    /\ tasks > 0
    /\ \E r \in {failure([Self EXCEPT !.tasks = @ - 1])} : Become(r)

Next ==
    \/ Start
    \/ Stop
    \/ SetAlarmParams
    \/ FireDeferred
    \/ FireOrphan
    \/ OnAlarmNotification
    \/ OnAlarmUpdateResponse
    \/ TaskSuccess
    \/ TaskFailure

Spec == Init /\ [][Next]_vars

\* ------------------------------------------- the sequence counter alone
syncvars == <<state, audit_delay, alarm_manager, deferred, deferred_delay, orphans, current_task,
              task_deferred, tasks, subscriptions, device_in_db, alarm_db_in_sync,
              db, events, consecutive_audits>>
diffvars == <<diff_prev, diff_new, diff_cleared, diff_raised, diff_done>>

IncrementAlarmSequence ==
    /\ last_alarm_sequence_value' = increment_alarm_sequence(last_alarm_sequence_value)
    /\ UNCHANGED <<syncvars, diffvars, dbvars, extvars>>

ResetAlarmSequence ==
    /\ last_alarm_sequence_value' = reset_alarm_sequence(last_alarm_sequence_value)
    /\ UNCHANGED <<syncvars, diffvars, dbvars, extvars>>

NextSeq ==
    \/ IncrementAlarmSequence
    \/ ResetAlarmSequence

SpecSeq == Init /\ [][NextSeq]_vars

\* ------------------------------------------------- the bitmap diff alone
DiffBitmaps == SUBSET ({TopBit - n : n \in 0..MaxDiffAlarmNo} \cup {0})

InitDiff ==
    /\ state = "disabled"
    /\ audit_delay = DEFAULT_AUDIT_DELAY
    /\ alarm_manager = TRUE
    /\ last_alarm_sequence_value = 0
    /\ deferred = "none"
    /\ deferred_delay = 0
    /\ orphans = NoOrphans
    /\ current_task = FALSE
    /\ task_deferred = FALSE
    /\ tasks = 0
    /\ subscriptions = {}
    /\ device_in_db = FALSE
    /\ alarm_db_in_sync = FALSE
    /\ db = NoTable
    /\ events = {}
    /\ consecutive_audits = 0
    /\ diff_prev \in DiffBitmaps
    /\ diff_new \in DiffBitmaps
    /\ diff_cleared = {}
    /\ diff_raised = {}
    /\ diff_done = FALSE
    /\ DbIdle
    /\ ExtIdle

\* lines 486-493 applied to prev_bitmap = diff_prev and bitmap = diff_new
CompareBitmaps ==
    /\ ~diff_done
    /\ diff_cleared' = newly_cleared(diff_prev, diff_new)
    /\ diff_raised' = newly_raised(diff_prev, diff_new)
    /\ diff_done' = TRUE
    /\ UNCHANGED <<syncvars, last_alarm_sequence_value, diff_prev, diff_new, dbvars, extvars>>

NextDiff == CompareBitmaps

SpecDiff == InitDiff /\ [][NextDiff]_vars



\* ------------------------------------------------- the entity databases
\* MibDbExternal (database/mib_db_ext.py) and AlarmDbExternal
\* (database/alarm_db_ext.py) over a key-value store.  A key is the sequence
\* of the segments of its path; the store is the function from the keys it
\* holds to their values.  A serialized protobuf message is the record of
\* its fields, a repeated field the set or function of its elements.

\* datetime.utcnow() takes the values 1..MaxClock
MaxClock == 3

\* 0xFFFF, the largest class and instance id
MaxId == 65535
\* the largest MIB data sync value
MaxMibDataSync == 255
CURRENT_VERSION == 1

DbKinds == {"MibDbExternal", "AlarmDbExternal"}
DeviceIds == {"onu"}
\* class 256 is known to the ME map; MaxId + 1 is out of range
DbClassIds == {256, MaxId + 1}
DbInstanceIds == {0, 1, MaxId + 1}
SyncValues == {0, MaxMibDataSync, MaxMibDataSync + 1}
LastSyncTimes == {1}

\* Python's None
None == [None |-> TRUE]

\* attribute values as the callers hand them over: a Python int or str, with
\* its text as str() prints it
IntValue(text) == [type |-> "int", text |-> text]
StrValue(text) == [type |-> "str", text |-> text]

\* str(value)
str(value) == value.text
\* int(str_value)
int(str_value) == IntValue(str_value)
\* value.replace("'", "")
replace_quotes(text) == IF text = "'SN'" THEN "SN" ELSE text
\* str_value.lower()
lower(text) ==
    IF text = "True" THEN "true" ELSE IF text = "False" THEN "false" ELSE text

\* the attribute dictionaries handed to set()
MibAttributes ==
    { [name \in {"administrative_state"} |-> IntValue("0")],
      [name \in {"administrative_state"} |-> IntValue("1")],
      [name \in {"serial_number"} |-> StrValue("'SN'")] }
AlarmAttributes ==
    { [name \in {"alarm_bit_map"} |-> IntValue("0")],
      [name \in {"alarm_bit_map"} |-> IntValue("1")],
      [name \in {"administrative_state"} |-> IntValue("1")] }
AttributesOf(kind) == IF kind = "MibDbExternal" THEN MibAttributes ELSE AlarmAttributes

\* a key of the store is a string; it is kept as the sequence of the parts
\* that its '/' characters separate, a number standing for its decimal text.
\* Segments is that sequence for a device id, which is any string
SlashedDeviceId == "onu/classes/256"
Segments(device_id) ==
    IF device_id = SlashedDeviceId THEN <<"onu", "classes", 256>> ELSE <<device_id>>

\* DEVICE_PATH, CLASS_PATH, INSTANCE_PATH: '{}', '{}/classes/{}' and
\* '{}/classes/{}/instances/{}' filled in by str.format
DevicePath(device_id) == Segments(device_id)
ClassPath(device_id, class_id) == Segments(device_id) \o <<"classes", class_id>>
InstancePath(device_id, class_id, instance_id) ==
    Segments(device_id) \o <<"classes", class_id, "instances", instance_id>>

\* EtcdStore: get returns None for a key the store does not hold, delete of
\* such a key changes nothing
EtcdStore_get_is_None(kv, key) == key \notin DOMAIN kv
EtcdStore_set(kv, key, value) ==
    [k \in DOMAIN kv \cup {key} |-> IF k = key THEN value ELSE kv[k]]
EtcdStore_delete(kv, key) == [k \in DOMAIN kv \ {key} |-> kv[k]]

\* what a call hands back: the store it leaves, and the value it returns or
\* the exception it raises
Return(kv, ret) == [kv |-> kv, raised |-> "none", ret |-> ret]
Raise(kv, exception) == [kv |-> kv, raised |-> exception]

\* _time_to_string, _string_to_time: '' stands for no time
time_to_string(time) == IF time = 0 THEN <<>> ELSE <<time>>
string_to_time(time) == IF Len(time) > 0 THEN time[1] ELSE 0

InRange(id) == 0 <= id /\ id <= MaxId

\* ------------------------------------------------------- MibDbExternal
\* self is [started, kv, now]: self._started, the store, datetime.utcnow()

\* the field of an attribute in the ME map of the device
field(class_id, attr_name) ==
    IF attr_name = "serial_number" THEN "OmciSerialNumberField" ELSE "ByteField"

Mib_attribute_to_string(class_id, attr_name, value) ==
    IF field(class_id, attr_name) = "OmciSerialNumberField"
    THEN replace_quotes(str(value))
    ELSE str(value)

Mib_string_to_attribute(class_id, attr_name, str_value) ==
    IF field(class_id, attr_name) = "OmciSerialNumberField"
    THEN StrValue(str_value)
    ELSE IF lower(str_value) \in {"true", "false"}
         THEN int(IF lower(str_value) = "true" THEN "1" ELSE "0")
         ELSE int(str_value)

Mib_create_new_device(self, device_id) ==
    [device_id |-> device_id, created |-> time_to_string(self.now),
     last_sync_time |-> <<>>, mib_data_sync |-> 0, version |-> CURRENT_VERSION,
     classes |-> {}]

Mib_create_new_instance(self, class_id, entity_id, attributes) ==
    [instance_id |-> entity_id,
     created |-> time_to_string(self.now),
     modified |-> time_to_string(self.now),
     attributes |-> [k \in DOMAIN attributes |->
                        Mib_attribute_to_string(class_id, k, attributes[k])]]

Mib_create_new_class(self, class_id, entity_id, attributes) ==
    [class_id |-> class_id,
     instances |-> [i \in {entity_id} |->
                       Mib_create_new_instance(self, class_id, entity_id, attributes)]]

\* None when no supplied attribute is new or differs from the stored string
Mib_update_existing_instance(self, class_id, entity_id, attributes, existing_instance) ==
    LET old == existing_instance.attributes
        str_value(k) == Mib_attribute_to_string(class_id, k, attributes[k])
        modified == \E k \in DOMAIN attributes :
                        k \notin DOMAIN old \/ old[k] # str_value(k)
        new_attributes == [k \in DOMAIN old \cup DOMAIN attributes |->
                              IF k \in DOMAIN attributes THEN str_value(k) ELSE old[k]]
    IN  IF modified
        THEN [instance_id |-> entity_id,
              created |-> existing_instance.created,
              modified |-> time_to_string(self.now),
              attributes |-> new_attributes]
        ELSE None

\* add that replaces an existing record whatever 'overwrite' says
AddAlwaysOverwrites(self, device_id, overwrite) ==
    Return(EtcdStore_set(self.kv, DevicePath(device_id),
                         Mib_create_new_device(self, device_id)), None)

Mib_add(self, device_id, overwrite) ==
    LET path == DevicePath(device_id)
        new_device_data == Mib_create_new_device(self, device_id)
    IN  IF EtcdStore_get_is_None(self.kv, path)
        THEN Return(EtcdStore_set(self.kv, path, new_device_data), None)
        ELSE IF ~overwrite
             THEN Raise(self.kv, "KeyError")
             ELSE Return(EtcdStore_set(self.kv, path, new_device_data), None)

Mib_remove(self, device_id) ==
    IF ~self.started
    THEN Raise(self.kv, "DatabaseStateError")
    ELSE Return(EtcdStore_delete(self.kv, DevicePath(device_id)), None)

\* set that looks at the store before it looks at its arguments
SetWithoutChecks(self, device_id, class_id, entity_id, attributes) ==
    Return(EtcdStore_set(self.kv, ClassPath(device_id, class_id),
                         Mib_create_new_class(self, class_id, entity_id, attributes)),
           TRUE)

Mib_set(self, device_id, class_id, entity_id, attributes) ==
    LET kv == self.kv
        class_path == ClassPath(device_id, class_id)
        device_path == DevicePath(device_id)
    IN  IF ~InRange(class_id) \/ ~InRange(entity_id)
        THEN Raise(kv, "ValueError")
        ELSE IF ~self.started
        THEN Raise(kv, "DatabaseStateError")
        ELSE IF EtcdStore_get_is_None(kv, class_path)
        THEN \* the class-id does not yet exist: add its pointer to the device
             IF EtcdStore_get_is_None(kv, device_path)
             THEN Raise(kv, "TypeError")        \* dev_data.ParseFromString(None)
             ELSE LET dev_data == [kv[device_path] EXCEPT !.classes = @ \cup {class_id}]
                      kv1 == EtcdStore_set(kv, device_path, dev_data)
                      new_class_data ==
                          Mib_create_new_class(self, class_id, entity_id, attributes)
                  IN  Return(EtcdStore_set(kv1, class_path, new_class_data), TRUE)
        ELSE LET class_data == kv[class_path]
                 found == entity_id \in DOMAIN class_data.instances
                 new_data ==
                     IF ~found
                     THEN Mib_create_new_instance(self, class_id, entity_id, attributes)
                     ELSE Mib_update_existing_instance(self, class_id, entity_id, attributes,
                                                       class_data.instances[entity_id])
                 modified == ~found \/ new_data # None
                 instances == [i \in DOMAIN class_data.instances \cup {entity_id} |->
                                  IF i = entity_id THEN new_data
                                  ELSE class_data.instances[i]]
             IN  IF modified
                 THEN Return(EtcdStore_set(kv, class_path,
                                 [class_data EXCEPT !.instances = instances]), TRUE)
                 ELSE Return(kv, FALSE)

Mib_delete(self, device_id, class_id, entity_id) ==
    LET kv == self.kv
        class_path == ClassPath(device_id, class_id)
        device_path == DevicePath(device_id)
    IN  IF ~self.started
        THEN Raise(kv, "DatabaseStateError")
        ELSE IF ~InRange(class_id) \/ ~InRange(entity_id)
        THEN Raise(kv, "ValueError")
        ELSE IF ~EtcdStore_get_is_None(kv, class_path)
        THEN LET class_data == kv[class_path]
                 found == entity_id \in DOMAIN class_data.instances
                 instances == [i \in DOMAIN class_data.instances \ {entity_id} |->
                                  class_data.instances[i]]
                 kv1 == IF found
                        THEN EtcdStore_set(kv, class_path,
                                 [class_data EXCEPT !.instances = instances])
                        ELSE kv
             IN  IF DOMAIN instances = {}
                 THEN \* the class has no instance left: remove it and its pointer
                      LET kv2 == EtcdStore_delete(kv1, class_path)
                      IN  IF EtcdStore_get_is_None(kv2, device_path)
                          THEN Raise(kv2, "TypeError")   \* dev_data.ParseFromString(None)
                          ELSE IF class_id \in kv2[device_path].classes
                          THEN Return(EtcdStore_set(kv2, device_path,
                                          [kv2[device_path] EXCEPT !.classes = @ \ {class_id}]),
                                      TRUE)
                          ELSE Return(kv2, TRUE)
                 ELSE Return(kv1, TRUE)
        ELSE Return(kv, FALSE)

Mib_instance_to_dict(class_id, instance) ==
    [instance_id |-> instance.instance_id,
     created |-> string_to_time(instance.created),
     modified |-> string_to_time(instance.modified),
     attributes |-> [name \in DOMAIN instance.attributes |->
                        Mib_string_to_attribute(class_id, name, instance.attributes[name])]]

Mib_class_to_dict(val) ==
    [class_id |-> val.class_id,
     instances |-> [i \in DOMAIN val.instances |->
                       Mib_instance_to_dict(val.class_id, val.instances[i])]]

\* query(device_id, class_id)
Mib_query_class(self, device_id, class_id) ==
    IF ~self.started
    THEN Raise(self.kv, "DatabaseStateError")
    ELSE IF ~InRange(class_id)
    THEN Raise(self.kv, "ValueError")
    ELSE IF ~EtcdStore_get_is_None(self.kv, ClassPath(device_id, class_id))
    THEN Return(self.kv, Mib_class_to_dict(self.kv[ClassPath(device_id, class_id)]))
    ELSE Return(self.kv, <<>>)

\* query(device_id, class_id, instance_id)
Mib_query_instance(self, device_id, class_id, instance_id) ==
    IF ~self.started
    THEN Raise(self.kv, "DatabaseStateError")
    ELSE IF ~InRange(class_id)
    THEN Raise(self.kv, "ValueError")
    ELSE IF ~EtcdStore_get_is_None(self.kv, ClassPath(device_id, class_id))
    THEN LET class_data == self.kv[ClassPath(device_id, class_id)]
         IN  IF instance_id \in DOMAIN class_data.instances
             THEN Return(self.kv,
                      Mib_instance_to_dict(class_id, class_data.instances[instance_id]))
             ELSE Return(self.kv, <<>>)
    ELSE Return(self.kv, <<>>)

\* query(device_id, class_id, instance_id, attributes): the attributes of the
\* instance whose name is in 'attributes'
Mib_query_attributes(self, device_id, class_id, instance_id, attributes) ==
    LET r == Mib_query_instance(self, device_id, class_id, instance_id)
    IN  IF r.raised # "none" \/ DOMAIN r.ret = {}
        THEN r
        ELSE Return(self.kv, [name \in DOMAIN r.ret.attributes \cap attributes |->
                                 r.ret.attributes[name]])

\* query(device_id): the device record with the class of every pointer it holds
Mib_query(self, device_id) ==
    IF ~EtcdStore_get_is_None(self.kv, DevicePath(device_id))
    THEN LET dev_data == self.kv[DevicePath(device_id)]
             class_ids == dev_data.classes
         IN  IF class_ids # {} /\ ~self.started
             THEN Raise(self.kv, "DatabaseStateError")
             ELSE Return(self.kv,
                     [device_id |-> dev_data.device_id,
                      created |-> string_to_time(dev_data.created),
                      last_sync_time |-> string_to_time(dev_data.last_sync_time),
                      mib_data_sync |-> dev_data.mib_data_sync,
                      version |-> dev_data.version,
                      classes |-> [c \in class_ids |->
                                      Mib_query_class(self, device_id, c).ret]])
    ELSE Return(self.kv, <<>>)

Mib_on_mib_reset(self, device_id) ==
    LET path == DevicePath(device_id)
    IN  IF ~EtcdStore_get_is_None(self.kv, path)
        THEN LET data == self.kv[path]
                 class_ids == data.classes
                 \* EtcdStore.delete of the class path of every pointer
                 kv1 == [k \in DOMAIN self.kv \ {ClassPath(device_id, c) : c \in class_ids}
                            |-> self.kv[k]]
                 new_data == [device_id |-> device_id, created |-> data.created,
                              last_sync_time |-> data.last_sync_time,
                              mib_data_sync |-> 0, version |-> CURRENT_VERSION,
                              classes |-> {}]
             IN  IF class_ids # {} /\ ~self.started
                 THEN Raise(self.kv, "DatabaseStateError")
                 ELSE Return(EtcdStore_set(kv1, path, new_data), None)
        ELSE Return(self.kv, None)

Mib_save_mib_data_sync(self, device_id, value) ==
    LET path == DevicePath(device_id)
    IN  IF ~(0 <= value /\ value <= MaxMibDataSync)
        THEN Raise(self.kv, "ValueError")
        ELSE IF EtcdStore_get_is_None(self.kv, path)
        THEN Raise(self.kv, "TypeError")        \* data.ParseFromString(None)
        ELSE Return(EtcdStore_set(self.kv, path,
                        [self.kv[path] EXCEPT !.mib_data_sync = value]), None)

Mib_get_mib_data_sync(self, device_id) ==
    IF ~EtcdStore_get_is_None(self.kv, DevicePath(device_id))
    THEN Return(self.kv, self.kv[DevicePath(device_id)].mib_data_sync)
    ELSE Return(self.kv, None)

Mib_save_last_sync(self, device_id, value) ==
    LET path == DevicePath(device_id)
    IN  IF EtcdStore_get_is_None(self.kv, path)
        THEN Raise(self.kv, "TypeError")        \* data.ParseFromString(None)
        ELSE Return(EtcdStore_set(self.kv, path,
                        [self.kv[path] EXCEPT !.last_sync_time = time_to_string(value)]),
                    None)

\* ------------------------------------------------------ AlarmDbExternal
\* Its store (common/config/config_backend.py) is used as a mapping:
\* self._kv_store[path] and del self._kv_store[path] raise KeyError for a key
\* the store does not hold.
getitem_raises_KeyError(kv, key) == key \notin DOMAIN kv
setitem(kv, key, value) == [k \in DOMAIN kv \cup {key} |-> IF k = key THEN value ELSE kv[k]]
delitem(kv, key) == [k \in DOMAIN kv \ {key} |-> kv[k]]

Alarm_attribute_to_string(value) == str(value)
Alarm_string_to_attribute(str_value) ==
    IF str_value = "" THEN IntValue("0") ELSE int(str_value)

Alarm_create_new_device(self, device_id) ==
    [device_id |-> device_id, created |-> time_to_string(self.now),
     last_sync_time |-> <<>>, last_alarm_sequence |-> 0, version |-> CURRENT_VERSION,
     classes |-> {}]

Alarm_add(self, device_id, overwrite) ==
    LET path == DevicePath(device_id)
        data == Alarm_create_new_device(self, device_id)
    IN  IF ~getitem_raises_KeyError(self.kv, path)
        THEN IF ~overwrite
             THEN Raise(self.kv, "KeyError")
             ELSE Return(setitem(self.kv, path, data), None)
        ELSE Return(setitem(self.kv, path, data), None)

Alarm_remove(self, device_id) ==
    IF ~self.started
    THEN Raise(self.kv, "DatabaseStateError")
    ELSE Return(delitem(self.kv, DevicePath(device_id)), None)

Alarm_create_new_instance(self, instance_id, attributes) ==
    [instance_id |-> instance_id,
     created |-> time_to_string(self.now),
     modified |-> time_to_string(self.now),
     attributes |-> [k \in DOMAIN attributes |-> Alarm_attribute_to_string(attributes[k])]]

Alarm_add_new_class_and_instance(self, device_id, class_id, instance_id, attributes) ==
    LET class_data == [class_id |-> class_id, instances |-> <<>>]
        kv1 == setitem(self.kv, ClassPath(device_id, class_id), class_data)
    IN  Return(setitem(kv1, InstancePath(device_id, class_id, instance_id),
                   Alarm_create_new_instance(self, instance_id, attributes)),
               TRUE)

Alarm_set(self, device_id, class_id, instance_id, attributes) ==
    LET kv == self.kv
        class_path == ClassPath(device_id, class_id)
        inst_path == InstancePath(device_id, class_id, instance_id)
    IN  IF ~InRange(class_id) \/ ~InRange(instance_id)
        THEN Raise(kv, "ValueError")
        ELSE IF ~self.started
        THEN Raise(kv, "DatabaseStateError")
        ELSE IF getitem_raises_KeyError(kv, class_path)
        THEN Alarm_add_new_class_and_instance(self, device_id, class_id, instance_id,
                                              attributes)
        ELSE IF getitem_raises_KeyError(kv, inst_path)
        THEN \* the instance does not yet exist; 'del self._kv_store[inst_path]'
             \* then leads to _add_new_class_and_instance, which writes the same
             \* empty class record again
             Return(setitem(kv, inst_path,
                        Alarm_create_new_instance(self, instance_id, attributes)), TRUE)
        ELSE LET inst_data == kv[inst_path]
                 old == inst_data.attributes
                 new_attributes == [k \in DOMAIN attributes |->
                                       Alarm_attribute_to_string(attributes[k])]
                 modified == \E k \in DOMAIN attributes :
                                 k \notin DOMAIN old \/ old[k] # new_attributes[k]
                 new_data == [instance_id |-> instance_id,
                              created |-> inst_data.created,
                              modified |-> time_to_string(self.now),
                              attributes |-> new_attributes]
             IN  IF modified
                 THEN Return(setitem(delitem(kv, inst_path),
                                           inst_path, new_data), TRUE)
                 ELSE Return(kv, FALSE)

Alarm_delete(self, device_id, class_id, entity_id) ==
    LET instpath == InstancePath(device_id, class_id, entity_id)
    IN  IF ~self.started
        THEN Raise(self.kv, "DatabaseStateError")
        ELSE IF ~InRange(class_id) \/ ~InRange(entity_id)
        THEN Raise(self.kv, "ValueError")
        ELSE IF ~getitem_raises_KeyError(self.kv, instpath)
        THEN Return(delitem(self.kv, instpath), TRUE)
        ELSE Return(self.kv, FALSE)

Alarm_instance_to_dict(instance) ==
    [instance_id |-> instance.instance_id,
     created |-> string_to_time(instance.created),
     modified |-> string_to_time(instance.modified),
     attributes |-> [name \in DOMAIN instance.attributes |->
                        Alarm_string_to_attribute(instance.attributes[name])]]

Alarm_class_to_dict(val) ==
    [class_id |-> val.class_id,
     instances |-> [i \in DOMAIN val.instances |->
                       Alarm_instance_to_dict(val.instances[i])]]

\* query(device_id): the device record and the classes serialized in it
Alarm_query(self, device_id) ==
    IF ~getitem_raises_KeyError(self.kv, DevicePath(device_id))
    THEN LET dev_data == self.kv[DevicePath(device_id)]
         IN  Return(self.kv,
                 [device_id |-> dev_data.device_id,
                  created |-> string_to_time(dev_data.created),
                  version |-> dev_data.version,
                  classes |-> [c \in dev_data.classes |-> <<>>]])
    ELSE Return(self.kv, <<>>)

\* query(device_id, class_id)
Alarm_query_class(self, device_id, class_id) ==
    IF ~self.started
    THEN Raise(self.kv, "DatabaseStateError")
    ELSE IF ~InRange(class_id)
    THEN Raise(self.kv, "ValueError")
    ELSE IF ~getitem_raises_KeyError(self.kv, ClassPath(device_id, class_id))
    THEN Return(self.kv, Alarm_class_to_dict(self.kv[ClassPath(device_id, class_id)]))
    ELSE Return(self.kv, <<>>)

\* query(device_id, class_id, instance_id)
Alarm_query_instance(self, device_id, class_id, instance_id) ==
    IF ~self.started
    THEN Raise(self.kv, "DatabaseStateError")
    ELSE IF ~InRange(class_id) \/ ~InRange(instance_id)
    THEN Raise(self.kv, "ValueError")
    ELSE IF ~getitem_raises_KeyError(self.kv, InstancePath(device_id, class_id, instance_id))
    THEN Return(self.kv, Alarm_instance_to_dict(
                    self.kv[InstancePath(device_id, class_id, instance_id)]))
    ELSE Return(self.kv, <<>>)

\* query(device_id, class_id, instance_id, attributes)
Alarm_query_attributes(self, device_id, class_id, instance_id, attributes) ==
    LET r == Alarm_query_instance(self, device_id, class_id, instance_id)
    IN  IF r.raised # "none" \/ DOMAIN r.ret = {}
        THEN r
        ELSE Return(self.kv, [name \in DOMAIN r.ret.attributes \cap attributes |->
                                 r.ret.attributes[name]])

Alarm_save_alarm_last_sync(self, device_id, value) ==
    LET path == DevicePath(device_id)
    IN  IF getitem_raises_KeyError(self.kv, path)
        THEN Raise(self.kv, "KeyError")
        ELSE Return(setitem(self.kv, path,
                        [self.kv[path] EXCEPT !.last_alarm_sequence = value]), None)

\* reads self.kv_store, an attribute AlarmDbExternal never assigns
Alarm_get_alarm_last_sync(self, device_id) == Raise(self.kv, "AttributeError")

\* ---------------------------------------------- the database under test
DbSelf == [kind |-> db_kind, started |-> started, kv |-> kv_store, now |-> clock + 1]

add(self, device_id, overwrite) ==
    IF self.kind = "MibDbExternal"
    THEN Mib_add(self, device_id, overwrite)
    ELSE Alarm_add(self, device_id, overwrite)

remove(self, device_id) ==
    IF self.kind = "MibDbExternal"
    THEN Mib_remove(self, device_id)
    ELSE Alarm_remove(self, device_id)

set(self, device_id, class_id, instance_id, attributes) ==
    IF self.kind = "MibDbExternal"
    THEN Mib_set(self, device_id, class_id, instance_id, attributes)
    ELSE Alarm_set(self, device_id, class_id, instance_id, attributes)

delete(self, device_id, class_id, entity_id) ==
    IF self.kind = "MibDbExternal"
    THEN Mib_delete(self, device_id, class_id, entity_id)
    ELSE Alarm_delete(self, device_id, class_id, entity_id)

query(self, device_id) ==
    IF self.kind = "MibDbExternal"
    THEN Mib_query(self, device_id)
    ELSE Alarm_query(self, device_id)

query_class(self, device_id, class_id) ==
    IF self.kind = "MibDbExternal"
    THEN Mib_query_class(self, device_id, class_id)
    ELSE Alarm_query_class(self, device_id, class_id)

query_instance(self, device_id, class_id, instance_id) ==
    IF self.kind = "MibDbExternal"
    THEN Mib_query_instance(self, device_id, class_id, instance_id)
    ELSE Alarm_query_instance(self, device_id, class_id, instance_id)

query_attributes(self, device_id, class_id, instance_id, attributes) ==
    IF self.kind = "MibDbExternal"
    THEN Mib_query_attributes(self, device_id, class_id, instance_id, attributes)
    ELSE Alarm_query_attributes(self, device_id, class_id, instance_id, attributes)

InitDb ==
    /\ state = "disabled"
    /\ audit_delay = DEFAULT_AUDIT_DELAY
    /\ alarm_manager = FALSE
    /\ last_alarm_sequence_value = 0
    /\ deferred = "none"
    /\ deferred_delay = 0
    /\ orphans = NoOrphans
    /\ current_task = FALSE
    /\ task_deferred = FALSE
    /\ tasks = 0
    /\ subscriptions = {}
    /\ device_in_db = FALSE
    /\ alarm_db_in_sync = FALSE
    /\ db = NoTable
    /\ events = {}
    /\ consecutive_audits = 0
    /\ diff_prev = {}
    /\ diff_new = {}
    /\ diff_cleared = {}
    /\ diff_raised = {}
    /\ diff_done = FALSE
    /\ db_kind \in DbKinds
    /\ started = FALSE
    /\ kv_store = <<>>
    /\ clock = 0
    /\ db_result = [op |-> "none"]
    /\ ExtIdle

\* the call 'op' ended as r says; the clock moves on when a time was written
Called(op, r) ==
    /\ kv_store' = r.kv
    /\ clock' = IF op \in {"add", "set"} /\ r.kv # kv_store THEN clock + 1 ELSE clock
    /\ clock' <= MaxClock
    /\ db_result' = IF r.raised # "none" THEN [op |-> op, raised |-> r.raised]
                    ELSE IF op \in {"set", "delete"}
                    THEN [op |-> op, raised |-> "none", ret |-> r.ret]
                    ELSE [op |-> op, raised |-> "none"]
    /\ UNCHANGED <<db_kind, started, syncvars, last_alarm_sequence_value, diffvars, extvars>>

\* a call that only reads: it returns r and leaves everything as it was
Read(r) ==
    /\ r.kv = kv_store
    /\ UNCHANGED vars

DbStart ==
    /\ ~started
    /\ started' = TRUE
    /\ db_result' = [op |-> "start"]
    /\ UNCHANGED <<db_kind, kv_store, clock, syncvars, last_alarm_sequence_value, diffvars, extvars>>

DbStop ==
    /\ started
    /\ started' = FALSE
    /\ db_result' = [op |-> "stop"]
    /\ UNCHANGED <<db_kind, kv_store, clock, syncvars, last_alarm_sequence_value, diffvars, extvars>>

CallAdd ==
    \E device_id \in DeviceIds, overwrite \in BOOLEAN :
        \E r \in {add(DbSelf, device_id, overwrite)} : Called("add", r)

CallRemove ==
    \E device_id \in DeviceIds :
        \E r \in {remove(DbSelf, device_id)} : Called("remove", r)

CallSet ==
    \E device_id \in DeviceIds, class_id \in DbClassIds, instance_id \in DbInstanceIds,
       attributes \in AttributesOf(db_kind) :
        \E r \in {set(DbSelf, device_id, class_id, instance_id, attributes)} :
            Called("set", r)

CallDelete ==
    \E device_id \in DeviceIds, class_id \in DbClassIds, instance_id \in DbInstanceIds :
        \E r \in {delete(DbSelf, device_id, class_id, instance_id)} : Called("delete", r)

CallQuery ==
    \E device_id \in DeviceIds :
        \E r \in {query(DbSelf, device_id)} : Read(r)

CallQueryClass ==
    \E device_id \in DeviceIds, class_id \in DbClassIds :
        \E r \in {query_class(DbSelf, device_id, class_id)} : Read(r)

CallQueryInstance ==
    \E device_id \in DeviceIds, class_id \in DbClassIds, instance_id \in DbInstanceIds :
        \E r \in {query_instance(DbSelf, device_id, class_id, instance_id)} :
            Read(r)

CallOnMibReset ==
    /\ db_kind = "MibDbExternal"
    /\ \E device_id \in DeviceIds :
        \E r \in {Mib_on_mib_reset(DbSelf, device_id)} : Called("on_mib_reset", r)

CallSaveMibDataSync ==
    /\ db_kind = "MibDbExternal"
    /\ \E device_id \in DeviceIds, value \in SyncValues :
        \E r \in {Mib_save_mib_data_sync(DbSelf, device_id, value)} :
            Called("save_mib_data_sync", r)

CallGetMibDataSync ==
    /\ db_kind = "MibDbExternal"
    /\ \E device_id \in DeviceIds :
        \E r \in {Mib_get_mib_data_sync(DbSelf, device_id)} :
            Read(r)

CallSaveLastSync ==
    /\ db_kind = "MibDbExternal"
    /\ \E device_id \in DeviceIds, value \in LastSyncTimes :
        \E r \in {Mib_save_last_sync(DbSelf, device_id, value)} :
            Called("save_last_sync", r)

CallSaveAlarmLastSync ==
    /\ db_kind = "AlarmDbExternal"
    /\ \E device_id \in DeviceIds, value \in SyncValues :
        \E r \in {Alarm_save_alarm_last_sync(DbSelf, device_id, value)} :
            Called("save_alarm_last_sync", r)

CallGetAlarmLastSync ==
    /\ db_kind = "AlarmDbExternal"
    /\ \E device_id \in DeviceIds :
        \E r \in {Alarm_get_alarm_last_sync(DbSelf, device_id)} :
            Read(r)

NextDb ==
    \/ DbStart
    \/ DbStop
    \/ CallAdd
    \/ CallRemove
    \/ CallSet
    \/ CallDelete
    \/ CallQuery
    \/ CallQueryClass
    \/ CallQueryInstance
    \/ CallOnMibReset
    \/ CallSaveMibDataSync
    \/ CallGetMibDataSync
    \/ CallSaveLastSync
    \/ CallSaveAlarmLastSync
    \/ CallGetAlarmLastSync

SpecDb == InitDb /\ [][NextDb]_vars

\* ---------------------------------------------------- CoreProxy.register
\* kafka/core_proxy.py.  The Adapter message carries the two replica numbers;
\* the Register RPC either answers or raises, and register re-raises.
\* the sitting alarm synchronizer and databases, untouched by what follows
SyncIdleWith(delay) ==
    /\ state = "disabled"
    /\ audit_delay = delay
    /\ alarm_manager = FALSE
    /\ last_alarm_sequence_value = 0
    /\ deferred = "none"
    /\ deferred_delay = 0
    /\ orphans = NoOrphans
    /\ current_task = FALSE
    /\ task_deferred = FALSE
    /\ tasks = 0
    /\ subscriptions = {}
    /\ device_in_db = FALSE
    /\ alarm_db_in_sync = FALSE
    /\ db = NoTable
    /\ events = {}
    /\ consecutive_audits = 0
    /\ diff_prev = {}
    /\ diff_new = {}
    /\ diff_cleared = {}
    /\ diff_raised = {}
    /\ diff_done = FALSE

\* a synchronizer constructed with the default audit_delay and not started
SyncIdle == SyncIdleWith(DEFAULT_AUDIT_DELAY)

basevars == <<syncvars, last_alarm_sequence_value, diffvars, dbvars>>

\* replica numbers an operator may configure, 0..MaxReplicas, and a negative one
MaxReplicas == 9
Replicas == -1..MaxReplicas
Adapters == [currentReplica : Replicas, totalReplicas : Replicas]

\* register without the check of currentReplica = 0
RegisterWithoutZeroCheck(a, rpc_fails) ==
    IF a.totalReplicas = 0 /\ a.currentReplica # 0
    THEN [adapter |-> a, invoked |-> FALSE, raised |-> "totalReplicas can't be 0"]
    ELSE LET b == IF a.currentReplica = 0 /\ a.totalReplicas = 0
                  THEN [a EXCEPT !.currentReplica = 1, !.totalReplicas = 1]
                  ELSE a
         IN IF b.currentReplica > b.totalReplicas
            THEN [adapter |-> b, invoked |-> FALSE,
                  raised |-> "currentReplica can't be greater than totalReplicas"]
            ELSE [adapter |-> b, invoked |-> TRUE,
                  raised |-> IF rpc_fails THEN "registration-exception" ELSE "none"]

\* CoreProxy.register(adapter, deviceTypes): 'adapter' of the result is the
\* message as register leaves it, which is the one passed to invoke
register(a, rpc_fails) ==
    IF a.totalReplicas = 0 /\ a.currentReplica # 0
    THEN [adapter |-> a, invoked |-> FALSE, raised |-> "totalReplicas can't be 0"]
    ELSE IF a.currentReplica = 0 /\ a.totalReplicas # 0
    THEN [adapter |-> a, invoked |-> FALSE, raised |-> "currentReplica can't be 0"]
    ELSE LET b == IF a.currentReplica = 0 /\ a.totalReplicas = 0
                  THEN [a EXCEPT !.currentReplica = 1, !.totalReplicas = 1]
                  ELSE a
         IN IF b.currentReplica > b.totalReplicas
            THEN [adapter |-> b, invoked |-> FALSE,
                  raised |-> "currentReplica can't be greater than totalReplicas"]
            ELSE [adapter |-> b, invoked |-> TRUE,
                  raised |-> IF rpc_fails THEN "registration-exception" ELSE "none"]

InitReg ==
    /\ SyncIdle
    /\ DbIdle
    /\ adapter \in Adapters
    /\ reg_result = [op |-> "none"]
    /\ TmplIdle
    /\ LazyIdle
    /\ AgentIdle
    /\ LaterIdle

Registered(given, r) ==
    /\ adapter' = r.adapter
    /\ reg_result' = [op |-> "register", given |-> given, invoked |-> r.invoked,
                      raised |-> r.raised]
    /\ UNCHANGED <<basevars, tmplvars, lazyvars, agentvars, latervars>>

\* the adapter registers with the message it holds
Register ==
    \E rpc_fails \in BOOLEAN :
        \E r \in {register(adapter, rpc_fails)} : Registered(adapter, r)

NextReg == Register

SpecReg == InitReg /\ [][NextReg]_vars

\* ------------------------------------------------------- MibTemplateTask
\* tasks/mib_template_task.py and database/mib_template_db.py.  The task sends
\* a MIB reset and five get requests, one after the other, and then looks the
\* template up.  A value read from the ONU is the sequence of its characters,
\* NUL being the padding of a fixed-length OMCI string.
NUL == "\\x00"
\* the requests of create_template_instance in the order they are sent: MIB
\* reset, ONT-G, ONT2-G, software image 0, software image 1, IP host config
Exchanges == 6
\* bytes.decode('ascii').rstrip('\x00')
RECURSIVE rstrip(_)
rstrip(raw) ==
    IF raw # <<>> /\ raw[Len(raw)] = NUL THEN rstrip(SubSeq(raw, 1, Len(raw) - 1)) ELSE raw

\* values of vendor_id, equipment_id and version: absent or empty, padding
\* alone, a padded text
RawStrings == {<<>>, <<NUL>>, <<"A", NUL>>}

\* what the ONU answers and whether the store holds a template under the path
Onus ==
    [reset : {"success", "failed"},
     timeout_at : 0..Exchanges,
     vendor_id : RawStrings, equipment_id : RawStrings,
     is_active : {<<0, 0>>, <<1, 0>>, <<0, 1>>},
     version : {<<<<>>, <<"A", NUL>>>>, <<<<"A", NUL>>, <<>>>>, <<<<"A">>, <<"A">>>>},
     template_stored : BOOLEAN]

\* MibTemplateDb defines __init__, get_template_instance, _load_template,
\* _get_template_path and _load_from_json
MibTemplateDb_methods ==
    {"__init__", "get_template_instance", "_load_template", "_get_template_path",
     "_load_from_json"}

\* MibTemplateDb(...): _load_template reads the store once; 'loaded' tells
\* whether the path held a template
MibTemplateDb_init(o) == [loaded |-> o.template_stored, lookups |-> 1]

\* the deferred of the task after create_template_instance: how it was fired,
\* with what, and how many template lookups were made
Fired(how, value, lookups) == [how |-> how, value |-> value, lookups |-> lookups]

create_template_instance(o) ==
    IF o.timeout_at = 1 THEN Fired("errback", "TimeoutError", 0)
    ELSE IF o.reset # "success" THEN Fired("errback", "Exception", 0)
    ELSE IF o.timeout_at \in 2..Exchanges THEN Fired("errback", "TimeoutError", 0)
    ELSE LET vendor_id == rstrip(o.vendor_id)
             equipment_id == rstrip(o.equipment_id)
             software_version ==
                 IF o.is_active[1] = 1 THEN rstrip(o.version[1])
                 ELSE IF o.is_active[2] = 1 THEN rstrip(o.version[2])
                 ELSE <<>>
         IN IF vendor_id # <<>> /\ equipment_id # <<>> /\ software_version # <<>>
            THEN LET template == MibTemplateDb_init(o)
                 IN IF "load_template" \notin MibTemplateDb_methods
                    THEN Fired("errback", "AttributeError", template.lookups)
                    ELSE IF template.loaded
                    THEN Fired("callback", "instance", template.lookups)
                    ELSE Fired("callback", "None", template.lookups)
            ELSE Fired("callback", "None", 0)

\* twisted's Deferred as the task uses it: whether it has a result, which one,
\* how many results it took, and whether the next callback or errback is to
\* be dropped
NewDeferred == [called |-> FALSE, result |-> "none", resolutions |-> 0, suppress |-> FALSE]

\* a deferred whose callback and errback complain about every second result,
\* a cancel before or not
FireOfCalledRaises(d, how) ==
    IF ~d.called
    THEN [d |-> [d EXCEPT !.called = TRUE, !.result = how, !.resolutions = @ + 1],
          raised |-> "none"]
    ELSE [d |-> d, raised |-> "AlreadyCalledError"]

\* Deferred.callback and Deferred.errback: a deferred without result takes it;
\* a cancelled one drops the first result offered after the cancel; any other
\* raises AlreadyCalledError
Deferred_fire(d, how) ==
    IF ~d.called
    THEN [d |-> [d EXCEPT !.called = TRUE, !.result = how, !.resolutions = @ + 1],
          raised |-> "none"]
    ELSE IF d.suppress
    THEN [d |-> [d EXCEPT !.suppress = FALSE], raised |-> "none"]
    ELSE [d |-> d, raised |-> "AlreadyCalledError"]

\* Task.cancel_deferred: 'if d is not None and not d.called: d.cancel()' on the
\* deferred of the task, which has no canceller: it fails with CancelledError
Task_cancel_deferred(d) ==
    IF d.called THEN d
    ELSE [d EXCEPT !.called = TRUE, !.result = "CancelledError", !.resolutions = @ + 1,
                   !.suppress = TRUE]

\* the task after start(): create_template_instance is a delayed call
Task_started ==
    [deferred |-> NewDeferred, generator |-> "scheduled", awaiting |-> 0,
     stopped |-> FALSE, raised |-> "none"]

\* MibTemplateTask.stop: cancel_deferred cancels the task's deferred and the
\* delayed call of start when it was not called yet; a generator that has
\* begun is reached by neither
MibTemplateTask_stop(task) ==
    [task EXCEPT !.deferred = Task_cancel_deferred(@),
                 !.generator = IF @ = "scheduled" THEN "cancelled" ELSE @,
                 !.stopped = TRUE]

\* the generator can come to wait for the response to request j
Awaits(o, j) ==
    /\ j \in 1..Exchanges
    /\ j > 1 => (o.reset = "success" /\ o.timeout_at \notin 1..(j - 1))

\* the end of create_template_instance: the body ends with deferred.callback,
\* whose AlreadyCalledError is caught; the handlers of TimeoutError and of
\* Exception call deferred.errback, and what that raises leaves the generator
completes(task, o) ==
    LET how == create_template_instance(o).how
        r == Deferred_fire(task.deferred, how)
    IN  [task EXCEPT !.deferred = r.d,
                     !.generator = "finished",
                     !.raised = IF how = "callback" THEN "none" ELSE r.raised]

InitTmpl ==
    /\ SyncIdle
    /\ DbIdle
    /\ RegIdle
    /\ onu \in Onus
    /\ template_result = [op |-> "none"]
    /\ template_task = Task_started
    /\ LazyIdle
    /\ AgentIdle
    /\ LaterIdle

\* the reactor runs create_template_instance of a started task
CreateTemplateInstance ==
    /\ template_result.op = "none"
    /\ ~template_task.stopped
    /\ template_result' = [op |-> "create_template_instance",
                           deferred |-> create_template_instance(onu)]
    /\ template_task' = completes(template_task, onu)
    /\ UNCHANGED <<basevars, regvars, onu, lazyvars, agentvars, latervars>>

\* the delayed call of start fires, or the response to the request before
\* arrived: the generator sends the next request and waits for its response
TemplateAwait ==
    /\ template_result.op = "none"
    /\ template_task.generator \in {"scheduled", "waiting"}
    /\ Awaits(onu, template_task.awaiting + 1)
    /\ template_task' = [template_task EXCEPT !.generator = "waiting", !.awaiting = @ + 1]
    /\ UNCHANGED <<basevars, regvars, onu, template_result, lazyvars, agentvars, latervars>>

\* the runner or the synchronizer stops the task before it has ended
TemplateStop ==
    /\ template_result.op = "none"
    /\ ~template_task.stopped
    /\ template_task' = MibTemplateTask_stop(template_task)
    /\ UNCHANGED <<basevars, regvars, onu, template_result, lazyvars, agentvars, latervars>>

\* the generator of a stopped task receives its last response or its timeout
LateCompletion ==
    /\ template_result.op = "none"
    /\ template_task.stopped
    /\ template_task.generator = "waiting"
    /\ template_result' = [op |-> "late_completion"]
    /\ template_task' = completes(template_task, onu)
    /\ UNCHANGED <<basevars, regvars, onu, lazyvars, agentvars, latervars>>

NextTmpl ==
    \/ CreateTemplateInstance
    \/ TemplateAwait
    \/ TemplateStop
    \/ LateCompletion

SpecTmpl == InitTmpl /\ [][NextTmpl]_vars

\* ---------------------------------------------------- MibDbLazyWriteDict
\* database/mib_db_dict_lazy.py.  The class keeps the MIB of every device in
\* the dictionary of its parent MibDbVolatileDict and writes a device to etcd
\* from a LoopingCall of _check_dirty.  The MIB of a device is represented by
\* its version: 0 when the device is created, one more after every change.
\* versions of a device's MIB that are told apart
MaxVersion == 2
\* LoopingCalls of one device running at a time
MaxTickers == 2
\* etcd requests of _sync in flight at a time
MaxInFlight == 1

Put(dict, key, value) ==
    [k \in DOMAIN dict \cup {key} |-> IF k = key THEN value ELSE dict[k]]
Without(dict, key) == [k \in DOMAIN dict \ {key} |-> dict[k]]

LazySelf ==
    [data |-> lazy_data, meta |-> lazymetadata, tickers |-> tickers,
     remote |-> remote, inflight |-> inflight]

\* how a method or callback ends: the object it leaves, the exception, and
\* what it reports (the return value of set and delete, the request of a tick)
Ended(self, raised, ret) == [self |-> self, raised |-> raised, ret |-> ret]

\* MibDbVolatileDict.add: a device already present is kept unless overwrite
Volatile_add(data, device_id, overwrite) ==
    IF device_id \in DOMAIN data /\ ~overwrite
    THEN [data |-> data, raised |-> "KeyError"]
    ELSE [data |-> Put(data, device_id, 0), raised |-> "none"]

\* MibDbVolatileDict.remove
Volatile_remove(data, device_id) == [data |-> Without(data, device_id), raised |-> "none"]

\* MibDbVolatileDict.set, delete, on_mib_reset, save_mib_data_sync: a change
\* of the device's MIB; an unknown device is a KeyError
Volatile_change(data, device_id, modified) ==
    IF device_id \notin DOMAIN data THEN [data |-> data, raised |-> "KeyError"]
    ELSE IF modified
    THEN [data |-> [data EXCEPT ![device_id] = @ + 1], raised |-> "none"]
    ELSE [data |-> data, raised |-> "none"]

\* MibDbVolatileDict.dump_to_json of a device that is present
dump_to_json(data, device_id) == data[device_id]

\* add: the load of the device from etcd and the rest of the method run in
\* one step
Lazy_add(self, device_id, overwrite) ==
    LET existing_db == device_id \in DOMAIN self.remote
        data == IF existing_db THEN Put(self.data, device_id, self.remote[device_id])
                ELSE self.data
        meta == Put(self.meta, device_id,
                    [last_lazy_write |-> existing_db, dirty_db |-> ~existing_db,
                     pending_delete |-> FALSE])
        running == IF device_id \in DOMAIN self.tickers THEN self.tickers[device_id] ELSE 0
        super == Volatile_add(data, device_id, overwrite)
    IN Ended([self EXCEPT !.data = super.data, !.meta = meta,
                          !.tickers = Put(self.tickers, device_id, running + 1)],
             super.raised, "None")

Lazy_remove(self, device_id) ==
    LET super == Volatile_remove(self.data, device_id)
        self1 == [self EXCEPT !.data = super.data]
    IN IF device_id \notin DOMAIN self.meta THEN Ended(self1, "KeyError", "None")
       ELSE Ended([self1 EXCEPT !.meta[device_id].dirty_db = TRUE,
                                !.meta[device_id].pending_delete = TRUE],
                  "none", "None")

\* on_mib_reset and save_mib_data_sync: the parent's method, then the flag
Lazy_change(self, device_id) ==
    LET super == Volatile_change(self.data, device_id, TRUE)
        self1 == [self EXCEPT !.data = super.data]
    IN IF super.raised # "none" THEN Ended(self, super.raised, "None")
       ELSE IF device_id \notin DOMAIN self.meta THEN Ended(self1, "KeyError", "None")
       ELSE Ended([self1 EXCEPT !.meta[device_id].dirty_db = TRUE], "none", "None")

Lazy_on_mib_reset(self, device_id) == Lazy_change(self, device_id)
Lazy_save_mib_data_sync(self, device_id) == Lazy_change(self, device_id)

\* set and delete are not defined by MibDbLazyWriteDict: the parent's run
Lazy_set(self, device_id, modified) ==
    LET super == Volatile_change(self.data, device_id, modified)
    IN Ended([self EXCEPT !.data = super.data], super.raised,
             IF super.raised = "none" THEN modified ELSE "None")

Lazy_delete(self, device_id, modified) == Lazy_set(self, device_id, modified)

\* _sync up to its yield: the request it hands to the etcd store
sync(self, device_id) ==
    IF self.meta[device_id].pending_delete
    THEN Ended([self EXCEPT !.inflight = @ \cup {[op |-> "delete", device_id |-> device_id]}],
               "none", "delete")
    ELSE Ended([self EXCEPT !.inflight = @ \cup
                    {[op |-> "set", device_id |-> device_id,
                      json |-> dump_to_json(self.data, device_id)]}],
               "none", "set")

\* _check_dirty, called by a LoopingCall: a call that raises ends the loop
check_dirty(self, device_id) ==
    IF device_id \notin DOMAIN self.meta
    THEN Ended([self EXCEPT !.tickers[device_id] = @ - 1], "KeyError", "none")
    ELSE IF self.meta[device_id].dirty_db THEN sync(self, device_id)
    ELSE Ended(self, "none", "none")

\* _sync after its yield: the etcd request 'request' has answered (ok) or failed
sync_done(self, request, ok) ==
    LET device_id == request.device_id
        self1 == [self EXCEPT !.inflight = @ \ {request}]
    IN IF ~ok THEN Ended(self1, "etcd", "None")
       ELSE IF request.op = "delete"
       THEN LET self2 == [self1 EXCEPT !.remote = Without(@, device_id)]
            IN IF device_id \notin DOMAIN self.meta THEN Ended(self2, "KeyError", "None")
               ELSE Ended([self2 EXCEPT !.meta = Without(@, device_id),
                                        !.tickers[device_id] = @ - 1],
                          "none", "None")
       ELSE LET self2 == [self1 EXCEPT !.remote = Put(@, device_id, request.json)]
            IN IF device_id \notin DOMAIN self.meta THEN Ended(self2, "KeyError", "None")
               ELSE Ended([self2 EXCEPT !.meta[device_id].last_lazy_write = TRUE,
                                        !.meta[device_id].dirty_db = FALSE],
                          "none", "None")

InitLazy ==
    /\ SyncIdle
    /\ DbIdle
    /\ RegIdle
    /\ TmplIdle
    /\ LazyIdle
    /\ AgentIdle
    /\ LaterIdle

\* the call or callback 'op' on device_id ended as r says
LazyCalled(op, device_id, r) ==
    /\ lazy_data' = r.self.data
    /\ lazymetadata' = r.self.meta
    /\ tickers' = r.self.tickers
    /\ remote' = r.self.remote
    /\ inflight' = r.self.inflight
    /\ lazy_result' =
         [op |-> op, raised |-> r.raised, ret |-> r.ret,
          dirty_db |-> device_id \in DOMAIN lazymetadata /\ lazymetadata[device_id].dirty_db,
          pending_delete |-> /\ device_id \in DOMAIN lazymetadata
                             /\ lazymetadata[device_id].pending_delete]
    /\ \A d \in DOMAIN r.self.data : r.self.data[d] <= MaxVersion
    /\ \A d \in DOMAIN r.self.tickers : r.self.tickers[d] <= MaxTickers
    /\ Cardinality(r.self.inflight) <= MaxInFlight
    /\ UNCHANGED <<basevars, regvars, tmplvars, agentvars, latervars>>

LazyAdd ==
    \E device_id \in DeviceIds, overwrite \in BOOLEAN :
        \E r \in {Lazy_add(LazySelf, device_id, overwrite)} : LazyCalled("add", device_id, r)

LazyRemove ==
    \E device_id \in DeviceIds :
        \E r \in {Lazy_remove(LazySelf, device_id)} : LazyCalled("remove", device_id, r)

LazyOnMibReset ==
    \E device_id \in DeviceIds :
        \E r \in {Lazy_on_mib_reset(LazySelf, device_id)} :
            LazyCalled("on_mib_reset", device_id, r)

LazySaveMibDataSync ==
    \E device_id \in DeviceIds :
        \E r \in {Lazy_save_mib_data_sync(LazySelf, device_id)} :
            LazyCalled("save_mib_data_sync", device_id, r)

LazySet ==
    \E device_id \in DeviceIds, modified \in BOOLEAN :
        \E r \in {Lazy_set(LazySelf, device_id, modified)} : LazyCalled("set", device_id, r)

LazyDelete ==
    \E device_id \in DeviceIds, modified \in BOOLEAN :
        \E r \in {Lazy_delete(LazySelf, device_id, modified)} :
            LazyCalled("delete", device_id, r)

\* a LoopingCall of the device fires
Tick ==
    \E device_id \in DOMAIN tickers :
        /\ tickers[device_id] > 0
        /\ \E r \in {check_dirty(LazySelf, device_id)} : LazyCalled("tick", device_id, r)

\* the deferred of an etcd request fires
SyncDone ==
    \E request \in inflight, ok \in BOOLEAN :
        \E r \in {sync_done(LazySelf, request, ok)} :
            LazyCalled(request.op \o "_done", request.device_id, r)

NextLazy ==
    \/ LazyAdd
    \/ LazyRemove
    \/ LazyOnMibReset
    \/ LazySaveMibDataSync
    \/ LazySet
    \/ LazyDelete
    \/ Tick
    \/ SyncDone

SpecLazy == InitLazy /\ [][NextLazy]_vars

\* ------------------------------------------------------------ OpenOMCIAgent
\* openomci_agent.py. The agent keeps _devices, a dict from device id to
\* OnuDeviceEntry; every entry is given the agent's databases as they are when
\* the entry is constructed. The entries constructed so far are numbered in the
\* order of their construction and a handle is that number. The databases are
\* the external databases above, and the one that is followed is the alarm
\* database, which the alarm synchronizer of an entry seeds and fills.

MaxEntries == 2
\* the writes to the database that are followed
MaxWrites == 2
AgentDeviceIds == {"onu", "onu2"}

AgentSelf ==
    [started |-> agent_started, db |-> alarm_db, devices |-> devices, entries |-> entries,
     database |-> DbSelf]

AgentReturn(self, ret) == [self |-> self, raised |-> "none", ret |-> ret]
AgentRaise(self, exception) == [self |-> self, raised |-> exception]

\* OpenOMCIAgent.start: the databases are created when there is none and are
\* started; self._devices.itervalues() then raises the AttributeError of a
\* Python 3 dict, which the handler logs, so that no device is started here.
Agent_start(self) ==
    IF self.started
    THEN AgentReturn(self, None)
    ELSE AgentReturn([self EXCEPT !.started = TRUE, !.db = TRUE,
                                  !.database.started = TRUE], None)

\* OpenOMCIAgent.stop: _started is cleared, and the AttributeError of
\* self._devices.itervalues() leaves the method before the databases are stopped
Agent_stop(self) ==
    IF ~self.started
    THEN AgentReturn(self, None)
    ELSE AgentRaise([self EXCEPT !.started = FALSE], "AttributeError")

\* an add_device that constructs an entry for an id that has one
AddDeviceAlwaysNew(self, device_id) ==
    LET handle == Len(self.entries) + 1
        device == [device_id |-> device_id, active |-> FALSE, db |-> self.db]
    IN  AgentReturn([self EXCEPT !.entries = Append(@, device),
                                 !.devices = Put(@, device_id, handle)], handle)

add_device(self, device_id) ==
    IF device_id \in DOMAIN self.devices
    THEN AgentReturn(self, self.devices[device_id])
    ELSE LET handle == Len(self.entries) + 1
             device == [device_id |-> device_id, active |-> FALSE, db |-> self.db]
         IN  AgentReturn([self EXCEPT !.entries = Append(@, device),
                                      !.devices = Put(@, device_id, handle)], handle)

\* OnuDeviceEntry.stop stops the state machines of the entry; their disabled
\* state cancels timers and tasks and leaves the databases alone
OnuDeviceEntry_stop(self, handle) == [self EXCEPT !.entries[handle].active = FALSE]

remove_device(self, device_id, cleanup) ==
    IF device_id \notin DOMAIN self.devices
    THEN AgentReturn(self, None)
    ELSE LET stopped == OnuDeviceEntry_stop(self, self.devices[device_id])
         IN  IF cleanup
             THEN AgentReturn([stopped EXCEPT !.devices = Without(@, device_id)], None)
             ELSE AgentReturn(stopped, None)

device_ids(self) == AgentReturn(self, DOMAIN self.devices)

get_device(self, device_id) ==
    IF device_id \in DOMAIN self.devices
    THEN AgentReturn(self, self.devices[device_id])
    ELSE AgentRaise(self, "KeyError")

\* _seed_database of a synchronizer: database.start() and database.add(device_id);
\* the KeyError of a device that is there is expected. An entry constructed
\* before the agent created its databases holds None, and the error of
\* None.start() is logged.
seed_database(self, handle) ==
    IF ~self.entries[handle].db
    THEN self
    ELSE LET database == [self.database EXCEPT !.started = TRUE]
             r == add(database, self.entries[handle].device_id, FALSE)
         IN  [self EXCEPT !.database = [database EXCEPT !.kv = r.kv]]

\* OnuDeviceEntry.start starts the state machines of the entry; on entering
\* 'starting' a synchronizer looks its device up in the agent and then seeds
\* its database
OnuDeviceEntry_start(self, handle) ==
    LET running == [self EXCEPT !.entries[handle].active = TRUE]
        device_id == self.entries[handle].device_id
    IN  IF get_device(self, device_id).raised # "none"
        THEN AgentRaise(running, "KeyError")
        ELSE AgentReturn(seed_database(running, handle), None)

\* a started synchronizer stores the alarm bitmap the ONU reports
OnuDeviceEntry_write(self, handle, bitmap) ==
    LET attributes == [name \in {"alarm_bit_map"} |-> IntValue(bitmap)]
        r == set(self.database, self.entries[handle].device_id, 256, 0, attributes)
    IN  IF r.raised # "none"
        THEN AgentRaise(self, r.raised)
        ELSE AgentReturn([self EXCEPT !.database.kv = r.kv], None)

InitAgent ==
    /\ SyncIdle
    /\ db_kind = "AlarmDbExternal"
    /\ started = FALSE
    /\ kv_store = <<>>
    /\ clock = 0
    /\ db_result = [op |-> "none"]
    /\ RegIdle
    /\ TmplIdle
    /\ LazyIdle
    /\ AgentIdle
    /\ LaterIdle

\* a call of op on device_id that ended with r; whether the agent held
\* device_id before the call is kept with the result
AgentCalled(op, device_id, cleanup, r) ==
    /\ Len(r.self.entries) <= MaxEntries
    /\ agent_started' = r.self.started
    /\ alarm_db' = r.self.db
    /\ devices' = r.self.devices
    /\ entries' = r.self.entries
    /\ started' = r.self.database.started
    /\ kv_store' = r.self.database.kv
    /\ clock' = IF kv_store' # kv_store THEN clock + 1 ELSE clock
    /\ clock' <= MaxWrites
    /\ agent_result' = [op |-> op, device_id |-> device_id, cleanup |-> cleanup,
                        raised |-> r.raised,
                        ret |-> IF r.raised = "none" THEN r.ret ELSE None,
                        present |-> device_id \in DOMAIN devices]
    /\ UNCHANGED <<syncvars, last_alarm_sequence_value, diffvars, db_kind, db_result,
                   regvars, tmplvars, lazyvars, latervars>>

AgentStart == \E r \in {Agent_start(AgentSelf)} : AgentCalled("start", "", FALSE, r)

AgentStop == \E r \in {Agent_stop(AgentSelf)} : AgentCalled("stop", "", FALSE, r)

AddDevice ==
    \E device_id \in AgentDeviceIds :
        \E r \in {add_device(AgentSelf, device_id)} :
            AgentCalled("add_device", device_id, FALSE, r)

RemoveDevice ==
    \E device_id \in AgentDeviceIds, cleanup \in BOOLEAN :
        \E r \in {remove_device(AgentSelf, device_id, cleanup)} :
            AgentCalled("remove_device", device_id, cleanup, r)

GetDevice ==
    \E device_id \in AgentDeviceIds :
        \E r \in {get_device(AgentSelf, device_id)} :
            AgentCalled("get_device", device_id, FALSE, r)

ListDeviceIds == \E r \in {device_ids(AgentSelf)} : AgentCalled("device_ids", "", FALSE, r)

\* the device handler starts an entry it was handed
DeviceStart ==
    \E handle \in DOMAIN entries :
        /\ ~entries[handle].active
        /\ \E r \in {OnuDeviceEntry_start(AgentSelf, handle)} :
               AgentCalled("device_start", entries[handle].device_id, FALSE, r)

DeviceWrite ==
    \E handle \in DOMAIN entries :
        /\ entries[handle].active
        /\ entries[handle].db
        /\ \E r \in {OnuDeviceEntry_write(AgentSelf, handle, "1")} :
               AgentCalled("device_write", entries[handle].device_id, FALSE, r)

NextAgent ==
    \/ AgentStart
    \/ AgentStop
    \/ AddDevice
    \/ RemoveDevice
    \/ GetDevice
    \/ ListDeviceIds
    \/ DeviceStart
    \/ DeviceWrite

SpecAgent == InitAgent /\ [][NextAgent]_vars

\* --------------------------------------------------------------- task runner
\* The runner of one device (task_runner.py) and the Task base class (task.py)
\* are described by the Task Scheduler contract; the tasks handed to it are
\* MibTemplateTask and OmciTestRequest. A task is numbered by the order in
\* which it was queued. What a task does while it holds the channel is that of
\* MibTemplateTask: start schedules create_template_instance, a generator that
\* sends a frame and waits for the response, Exchanges times. OmciTestRequest
\* does not override start and sends nothing when the runner starts it.

MaxQueued == 2
MaxFrames == 2

\* task_priority and the exclusive flag each task class passes to Task.__init__
TaskClasses ==
    { [name |-> "MibTemplateTask", priority |-> 250, exclusive |-> TRUE],
      [name |-> "OmciTestRequest", priority |-> 128, exclusive |-> TRUE],
      [name |-> "OmciTestRequest", priority |-> 128, exclusive |-> FALSE] }

SchedSelf == [pending |-> pending_queue, running |-> running_queue, tasks |-> task_table]

\* the position a task of this priority takes among the queued tasks: behind
\* every task whose priority number is not larger
InsertAt(self, priority) ==
    Cardinality({i \in DOMAIN self.pending : self.tasks[self.pending[i]].priority <= priority})

Insert(queue, at, task) ==
    [i \in 1..(Len(queue) + 1) |->
        IF i <= at THEN queue[i] ELSE IF i = at + 1 THEN task ELSE queue[i - 1]]

\* the head of the queue may take the channel when no task holds it, or when
\* neither the head nor a task that holds it is exclusive
MayStart(self, task) ==
    IF self.tasks[task].exclusive
    THEN self.running = {}
    ELSE \A other \in self.running : ~self.tasks[other].exclusive

\* MibTemplateTask.start: reactor.callLater(0, self.create_template_instance)
Task_start(self, task) ==
    [self EXCEPT !.pending = Tail(@),
                 !.running = @ \cup {task},
                 !.tasks[task].state = "running",
                 !.tasks[task].generator =
                     IF self.tasks[task].name = "MibTemplateTask" THEN "scheduled" ELSE "none"]

\* a runner that starts the head of the queue whatever holds the channel
RunNextIgnoringExclusive(self) ==
    IF self.pending = <<>> THEN self ELSE Task_start(self, Head(self.pending))

RECURSIVE StartAll(_, _)
StartAll(self, fuel) ==
    IF fuel = 0 \/ self.pending = <<>> \/ ~MayStart(self, Head(self.pending))
    THEN self
    ELSE StartAll(Task_start(self, Head(self.pending)), fuel - 1)

\* the runner starts queued tasks, in the order of the queue, while the head
\* of the queue may take the channel
run_next(self) == StartAll(self, Len(self.pending))

queue_task(self, class) ==
    LET task == Len(self.tasks) + 1
        record == [name |-> class.name, priority |-> class.priority,
                   exclusive |-> class.exclusive, state |-> "pending",
                   future |-> "none", frames |-> 0, generator |-> "none"]
        queued == [self EXCEPT !.tasks = Append(@, record),
                               !.pending = Insert(@, InsertAt(self, class.priority), task)]
    IN  run_next(queued)

\* the future of a running task resolves and the task leaves the active slot
Resolve(self, task, how) ==
    run_next([self EXCEPT !.running = @ \ {task},
                          !.tasks[task].state = "done",
                          !.tasks[task].future = how])

\* MibTemplateTask.cancel_deferred: the deferred of the task is cancelled, and
\* the delayed call of start is cancelled when it was not yet called; whatever
\* that cancel raises is swallowed. A generator that has begun is not reached
\* by either and goes on.
cancel_local_deferred(self, task, cleanup_raises) ==
    IF self.tasks[task].generator = "scheduled"
    THEN [self EXCEPT !.tasks[task].generator = "none"]
    ELSE self

\* MibTemplateTask.stop: cancel_deferred, then Task.stop in either case
Task_stop(self, task, cleanup_raises) ==
    Resolve(cancel_local_deferred(self, task, cleanup_raises), task, "cancelled")

\* create_template_instance sends the next frame: the delayed call fires for a
\* task that holds the channel, or the response to the frame before arrived
send(self, task) ==
    [self EXCEPT !.tasks[task].generator = "alive", !.tasks[task].frames = @ + 1]

MaySend(self, task) ==
    \/ self.tasks[task].generator = "scheduled" /\ self.tasks[task].state = "running"
    \/ self.tasks[task].generator = "alive"

\* create_template_instance ends with deferred.callback or deferred.errback; for
\* a deferred that was called before, AlreadyCalledError is caught
generator_ends(self, task, how) ==
    LET finished == [self EXCEPT !.tasks[task].generator = "finished"]
    IN  IF self.tasks[task].future = "none"
        THEN Resolve(finished, task, how)
        ELSE finished

InitSched ==
    /\ SyncIdle
    /\ DbIdle
    /\ RegIdle
    /\ TmplIdle
    /\ LazyIdle
    /\ AgentIdle
    /\ SchedIdle
    /\ MibIdle
    /\ FacadeIdle
    /\ AdvIdle

RunnerStep(op, task, cleanup_raises, self) ==
    /\ pending_queue' = self.pending
    /\ running_queue' = self.running
    /\ task_table' = self.tasks
    /\ sched_result' = [op |-> op, task |-> task, cleanup_raises |-> cleanup_raises]
    /\ UNCHANGED <<basevars, regvars, tmplvars, lazyvars, agentvars, mibvars, advvars, facadevars>>

QueueTask ==
    \E class \in TaskClasses :
        /\ Len(task_table) < MaxQueued
        /\ \E self \in {queue_task(SchedSelf, class)} :
               RunnerStep("queue_task", Len(task_table) + 1, FALSE, self)

\* a task sends a frame on the channel of the device
SendFrame ==
    \E task \in DOMAIN task_table :
        /\ MaySend(SchedSelf, task)
        /\ task_table[task].frames < MaxFrames
        /\ RunnerStep("send", task, FALSE, send(SchedSelf, task))

\* the generator of a task ends
TaskEnds ==
    \E task \in DOMAIN task_table, how \in {"success", "failure"} :
        /\ task_table[task].generator = "alive"
        /\ \E self \in {generator_ends(SchedSelf, task, how)} :
               RunnerStep(how, task, FALSE, self)

\* the watchdog of a running task expires
TaskTimeout ==
    \E task \in running_queue :
        \E self \in {Resolve(SchedSelf, task, "timeout")} :
            RunnerStep("timeout", task, FALSE, self)

\* a running task is stopped, and the cancel of its local deferred may raise
TaskStopped ==
    \E task \in running_queue, cleanup_raises \in BOOLEAN :
        \E self \in {Task_stop(SchedSelf, task, cleanup_raises)} :
            RunnerStep("stop", task, cleanup_raises, self)

NextSched ==
    \/ QueueTask
    \/ SendFrame
    \/ TaskEnds
    \/ TaskTimeout
    \/ TaskStopped

SpecSched == InitSched /\ [][NextSched]_vars

\* the watchdog of a task that holds the channel expires unless the task ends
SpecSchedFair == SpecSched /\ WF_vars(TaskTimeout)

\* ------------------------------------------------------------ MibSynchronizer
\* The MIB synchronizer (state_machines/mib_sync.py) is described by section
\* 4.2 of the spec; OpenOmciAgentDefaults names its tasks. mib_task holds the
\* task and the timer the synchronizer has outstanding, the tasks it cancelled
\* whose completion is still on its way, and the audits that found a difference.

MaxCancelled == 2
MaxRetries == 2

MibStates ==
    {"disabled", "starting", "uploading", "auditing", "in_sync", "out_of_sync",
     "resynchronizing"}

\* OpenOmciAgentDefaults['mib-synchronizer']['tasks']
MibTasks == {"mib-upload", "get-mds", "mib-audit", "mib-resync", "mib-reconcile"}

MibSelf == [state |-> mib_state, work |-> mib_task]

\* entering a state: the timer or the task of the state
Mib_on_enter(self, to) ==
    LET s == [self EXCEPT !.state = to, !.work.task = "none", !.work.timer = FALSE]
    IN  CASE to = "disabled" -> [s EXCEPT !.work.retries = 0]
          [] to = "starting" -> [s EXCEPT !.work.timer = TRUE, !.work.retries = 0]
          [] to = "uploading" -> [s EXCEPT !.work.task = "mib-upload"]
          [] to = "auditing" -> [s EXCEPT !.work.task = "mib-audit"]
          [] to = "in_sync" -> [s EXCEPT !.work.timer = TRUE, !.work.retries = 0]
          [] to = "resynchronizing" -> [s EXCEPT !.work.task = "mib-resync"]
          [] to = "out_of_sync" -> [s EXCEPT !.work.task = "mib-reconcile"]

Mib_start(self) ==
    IF self.state = "disabled" THEN Mib_on_enter(self, "starting") ELSE self

\* stop from any state: the task in flight is cancelled, the timer is cancelled
Mib_stop(self) ==
    LET cancelled == IF self.work.task = "none" THEN 0 ELSE 1
    IN  Mib_on_enter([self EXCEPT !.work.cancelled = @ + cancelled], "disabled")

\* the timer of 'starting' decides between the stored data (a template or a
\* database that holds the device) and a full upload, or fails and is retried;
\* the timer of 'in_sync' starts the audit
Mib_timer(self, outcome) ==
    CASE self.state = "starting" /\ outcome = "upload" -> Mib_on_enter(self, "uploading")
      [] self.state = "starting" /\ outcome = "stored" -> Mib_on_enter(self, "auditing")
      [] self.state = "starting" /\ outcome = "failure" -> Mib_on_enter(self, "starting")
      [] self.state = "in_sync" -> Mib_on_enter(self, "auditing")
      [] OTHER -> self

\* an audit that found a difference is repeated until the retries are used up
Mib_retry(self, to) ==
    IF self.work.retries >= MaxRetries
    THEN Mib_on_enter(self, "out_of_sync")
    ELSE [Mib_on_enter(self, to) EXCEPT !.work.retries = self.work.retries + 1]

\* the task in flight calls back: done, done with a difference found, or failed
Mib_task_done(self, outcome) ==
    CASE self.state = "uploading" /\ outcome = "success" -> Mib_on_enter(self, "in_sync")
      [] self.state = "uploading" -> Mib_on_enter(self, "starting")
      [] self.state = "auditing" /\ outcome = "success" -> Mib_on_enter(self, "in_sync")
      [] self.state = "auditing" /\ outcome = "different" ->
             Mib_on_enter(self, "resynchronizing")
      [] self.state = "auditing" -> Mib_retry(self, "auditing")
      [] self.state = "resynchronizing" /\ outcome = "success" ->
             Mib_on_enter(self, "in_sync")
      [] self.state = "resynchronizing" -> Mib_retry(self, "auditing")
      [] self.state = "out_of_sync" /\ outcome = "success" -> Mib_on_enter(self, "starting")
      [] self.state = "out_of_sync" -> Mib_on_enter(self, "out_of_sync")
      [] OTHER -> self

\* a callback of a cancelled task that acts as if the task were in flight
LateCallbackActs(self, outcome) ==
    Mib_on_enter([self EXCEPT !.work.cancelled = @ - 1], "in_sync")

\* the completion of a cancelled task arrives and is dropped
Mib_late_callback(self, outcome) == [self EXCEPT !.work.cancelled = @ - 1]

InitMib ==
    /\ SyncIdle
    /\ DbIdle
    /\ RegIdle
    /\ TmplIdle
    /\ LazyIdle
    /\ AgentIdle
    /\ SchedIdle
    /\ MibIdle
    /\ FacadeIdle
    /\ AdvIdle

MibStep(op, self) ==
    /\ self.work.cancelled <= MaxCancelled
    /\ mib_state' = self.state
    /\ mib_task' = self.work
    /\ mib_result' = [op |-> op, before |-> MibSelf]
    /\ UNCHANGED <<basevars, regvars, tmplvars, lazyvars, agentvars, schedvars, advvars, facadevars>>

MibStart == \E self \in {Mib_start(MibSelf)} : MibStep("start", self)

MibStop == \E self \in {Mib_stop(MibSelf)} : MibStep("stop", self)

MibTimer ==
    \E outcome \in {"upload", "stored", "failure"} :
        /\ mib_task.timer
        /\ \E self \in {Mib_timer(MibSelf, outcome)} : MibStep("timer", self)

MibTaskDone ==
    \E outcome \in {"success", "different", "failure"} :
        /\ mib_task.task # "none"
        /\ \E self \in {Mib_task_done(MibSelf, outcome)} : MibStep("task", self)

MibLateCallback ==
    \E outcome \in {"success", "different", "failure"} :
        /\ mib_task.cancelled > 0
        /\ \E self \in {Mib_late_callback(MibSelf, outcome)} : MibStep("late", self)

NextMib ==
    \/ MibStart
    \/ MibStop
    \/ MibTimer
    \/ MibTaskDone
    \/ MibLateCallback

SpecMib == InitMib /\ [][NextMib]_vars

\* -------------------------------------------------- advertised state changes
\* AlarmSynchronizer.advertise and OpenOMCIAgent.advertise: every on_enter
\* handler advertises the state it enters, on_enter_starting after it looked
\* its device up in the agent. The synchronizer is that of the entry the agent
\* constructed for "onu".

\* AlarmSynchronizer.advertise, OpenOMCIAgent.advertise: what reaches the bus
advertise(events_on, agent_on, info) ==
    IF events_on /\ agent_on
    THEN <<[event |-> "state_change", info |-> info]>>
    ELSE <<>>

\* a trigger of the state machine: the state is set and the handler of the
\* state runs; the KeyError of get_device leaves on_enter_starting at its
\* first line
fire_and_advertise(s, trig, events_on, agent) ==
    IF ~CanTrigger(trig, s.state)
    THEN [self |-> [s EXCEPT !.raised = TRUE], entered |-> "none", events |-> <<>>]
    ELSE LET to == Dest(trig, s.state)
         IN  IF to = "starting" /\ get_device(agent, "onu").raised # "none"
             THEN [self |-> [s EXCEPT !.state = to, !.raised = TRUE],
                   entered |-> to, events |-> <<>>]
             ELSE [self |-> Fire(s, trig), entered |-> to,
                   events |-> advertise(events_on, agent.started, to)]

NotEntered(s) == [self |-> s, entered |-> "none", events |-> <<>>]

InitAdv ==
    /\ \E delay \in AuditDelays : SyncIdleWith(delay)
    /\ DbIdle
    /\ RegIdle
    /\ TmplIdle
    /\ LazyIdle
    /\ agent_started = FALSE
    /\ alarm_db = FALSE
    /\ devices = [device_id \in {"onu"} |-> 1]
    /\ entries = <<[device_id |-> "onu", active |-> FALSE, db |-> FALSE]>>
    /\ agent_result = [op |-> "none"]
    /\ SchedIdle
    /\ MibIdle
    /\ FacadeIdle
    /\ advertise_events \in BOOLEAN
    /\ advertised = [op |-> "none"]

\* a step of the synchronizer that ended with r, after the agent became what
\* agent is
Advertised(op, r, agent) ==
    /\ state' = r.self.state
    /\ audit_delay' = r.self.audit_delay
    /\ alarm_manager' = r.self.alarm_manager
    /\ last_alarm_sequence_value' = r.self.seq
    /\ deferred' = r.self.deferred
    /\ deferred_delay' = r.self.delay
    /\ orphans' = r.self.orphans
    /\ current_task' = r.self.current_task
    /\ task_deferred' = r.self.task_deferred
    /\ tasks' = r.self.tasks
    /\ subscriptions' = r.self.subscriptions
    /\ device_in_db' = r.self.device_in_db
    /\ alarm_db_in_sync' = r.self.alarm_db_in_sync
    /\ db' = r.self.db
    /\ events' = r.self.events
    /\ consecutive_audits' = r.self.audits
    /\ OrphanCount(r.self.orphans) <= MaxAdvOrphans
    /\ r.self.tasks <= MaxAdvTasks
    /\ r.self.audits <= MaxAdvAudits
    /\ agent_started' = agent.started
    /\ alarm_db' = agent.db
    /\ started' = agent.database.started
    /\ devices' = agent.devices
    /\ entries' = agent.entries
    /\ advertised' = [op |-> op, entered |-> r.entered, events |-> r.events,
                      enabled |-> advertise_events /\ agent_started]
    /\ UNCHANGED <<diffvars, db_kind, kv_store, clock, db_result, regvars, tmplvars,
                   lazyvars, agent_result, schedvars, mibvars, advertise_events, facadevars>>

AdvAgentStart ==
    /\ ~agent_started
    /\ Advertised("agent_start", NotEntered(Self), Agent_start(AgentSelf).self)

AdvAgentStop ==
    /\ agent_started
    /\ Advertised("agent_stop", NotEntered(Self), Agent_stop(AgentSelf).self)

\* remove_device with cleanup: the entry is stopped, which stops its
\* synchronizer, and leaves the map
AdvRemoveDevice ==
    /\ "onu" \in DOMAIN devices
    /\ \E r \in {fire_and_advertise(Self, "stop", advertise_events, AgentSelf)} :
           Advertised("remove_device", r, remove_device(AgentSelf, "onu", TRUE).self)

AdvStart ==
    /\ state = "disabled"
    /\ \E r \in {fire_and_advertise(Self, "start", advertise_events, AgentSelf)} :
           Advertised("start", r, AgentSelf)

AdvStop ==
    \E r \in {fire_and_advertise(Self, "stop", advertise_events, AgentSelf)} :
        Advertised("stop", r, AgentSelf)

AdvFireDeferred ==
    /\ deferred \in TimerTriggers
    /\ \E r \in {fire_and_advertise([Self EXCEPT !.deferred = "called", !.delay = 0], deferred,
                                    advertise_events, AgentSelf)} :
           Advertised(deferred, r, AgentSelf)

\* an out-of-cycle audit: audit_alarm is requested whatever the state is
AdvAuditAlarm ==
    \E r \in {fire_and_advertise(Self, "audit_alarm", advertise_events, AgentSelf)} :
        Advertised("audit_alarm", r, AgentSelf)

AdvTaskSuccess ==
    \E onu_db \in AlarmTables :
        /\ tasks > 0
        /\ Advertised("task", NotEntered(success([Self EXCEPT !.tasks = @ - 1], onu_db)),
                      AgentSelf)

AdvTaskFailure ==
    /\ tasks > 0
    /\ Advertised("task", NotEntered(failure([Self EXCEPT !.tasks = @ - 1])), AgentSelf)

NextAdv ==
    \/ AdvAgentStart
    \/ AdvAgentStop
    \/ AdvRemoveDevice
    \/ AdvStart
    \/ AdvStop
    \/ AdvFireDeferred
    \/ AdvAuditAlarm
    \/ AdvTaskSuccess
    \/ AdvTaskFailure

SpecAdv == InitAdv /\ [][NextAdv]_vars

\* ------------------------------------- MibDbExternal shared by two devices
\* the devices of the agent, and a device id that has the form of a class path
PlainDeviceIds == {"onu", "onu2"}
FrameDeviceIds == PlainDeviceIds \cup {SlashedDeviceId}
\* the class ids of SpecDb that are in range
FrameClassIds == {class_id \in DbClassIds : InRange(class_id)}
FrameInstanceIds == {0, 1}
FrameAttributes == [name \in {"administrative_state"} |-> IntValue("1")]
FrameSyncValues == {MaxMibDataSync}

InitFrame ==
    /\ SyncIdle
    /\ db_kind = "MibDbExternal"
    /\ started = FALSE
    /\ kv_store = <<>>
    /\ clock = 0
    /\ db_result = [op |-> "none"]
    /\ ExtIdle

\* the call 'op' on device_id ended as r says
FrameCalled(op, device_id, r) ==
    /\ kv_store' = r.kv
    /\ clock' = IF op \in {"add", "set"} /\ r.kv # kv_store THEN clock + 1 ELSE clock
    /\ clock' <= MaxClock
    /\ db_result' = [op |-> op, device_id |-> device_id, raised |-> r.raised]
    /\ UNCHANGED <<db_kind, started, syncvars, last_alarm_sequence_value, diffvars, extvars>>

FrameAdd ==
    \E device_id \in PlainDeviceIds, overwrite \in BOOLEAN :
        \E r \in {Mib_add(DbSelf, device_id, overwrite)} : FrameCalled("add", device_id, r)

FrameSet ==
    \E device_id \in PlainDeviceIds, class_id \in FrameClassIds,
       instance_id \in FrameInstanceIds :
        \E r \in {Mib_set(DbSelf, device_id, class_id, instance_id, FrameAttributes)} :
            FrameCalled("set", device_id, r)

FrameDelete ==
    \E device_id \in PlainDeviceIds, class_id \in FrameClassIds,
       instance_id \in FrameInstanceIds :
        \E r \in {Mib_delete(DbSelf, device_id, class_id, instance_id)} :
            FrameCalled("delete", device_id, r)

FrameOnMibReset ==
    \E device_id \in PlainDeviceIds :
        \E r \in {Mib_on_mib_reset(DbSelf, device_id)} :
            FrameCalled("on_mib_reset", device_id, r)

FrameSaveMibDataSync ==
    \E device_id \in PlainDeviceIds, value \in FrameSyncValues :
        \E r \in {Mib_save_mib_data_sync(DbSelf, device_id, value)} :
            FrameCalled("save_mib_data_sync", device_id, r)

\* remove reads no record: it is the call followed for every device id
FrameRemove ==
    \E device_id \in FrameDeviceIds :
        \E r \in {Mib_remove(DbSelf, device_id)} : FrameCalled("remove", device_id, r)

NextFrame ==
    \/ DbStart
    \/ FrameAdd
    \/ FrameSet
    \/ FrameDelete
    \/ FrameOnMibReset
    \/ FrameSaveMibDataSync
    \/ FrameRemove

SpecFrame == InitFrame /\ [][NextFrame]_vars

\* -------------------------------------------------- AdapterRequestFacade
\* kafka/adapter_request_facade.py.  The facade holds the adapter and the core
\* proxy and keeps nothing between two requests.  An argument of a request is
\* absent (None) or a packed message; Unpack copies a packed message into a
\* message of the type the adapter expects.
AbsentArg == "absent"
PackedArg == "packed"
FacadeArgs == {AbsentArg, PackedArg}
Unpack(arg) == "unpacked"

\* what the adapter's method answers: one of two results, or an exception
AdapterResults == {"ack", "nack"}
AdapterAnswers == AdapterResults \cup {"raises"}

\* the names of voltha_protos.inter_container_pb2.ErrorCode
ErrorCodes == {"UNSUPPORTED_REQUEST", "INVALID_PARAMETERS", "DEADLINE_EXCEEDED"}

\* InterAdapterMessageType.ONU_IND_REQUEST, the header type that is retried
ONU_IND_REQUEST == 6
HeaderTypes == {0, ONU_IND_REQUEST}

\* a request that ended without a return value of its own
NoReturn(invoked, raised) ==
    [form |-> "none", ok |-> FALSE, value |-> "none", reason |-> "none",
     invoked |-> invoked, raised |-> raised, core_reference |-> FALSE]

\* 'return False, Error(code=ErrorCode.<code>, reason=<reason>)': the lookup of
\* a name that ErrorCode does not have raises AttributeError
Error(code, reason) ==
    IF code \in ErrorCodes
    THEN [form |-> "pair", ok |-> FALSE, value |-> code, reason |-> reason,
          invoked |-> <<>>, raised |-> "none", core_reference |-> FALSE]
    ELSE NoReturn(<<>>, "AttributeError")

\* one call of a method of the adapter
AdapterCall(method, args, max_retry) ==
    [method |-> method, args |-> args, max_retry |-> max_retry]

\* 'return True, self.adapter.<method>(...)'
Forward(method, args, answer) ==
    IF answer = "raises"
    THEN NoReturn(<<AdapterCall(method, args, 0)>>, "Exception")
    ELSE [form |-> "pair", ok |-> TRUE, value |-> answer, reason |-> "none",
          invoked |-> <<AdapterCall(method, args, 0)>>, raised |-> "none",
          core_reference |-> FALSE]

\* 'return self.adapter.<method>(device)'
ForwardBare(method, args, answer) ==
    IF answer = "raises"
    THEN NoReturn(<<AdapterCall(method, args, 0)>>, "Exception")
    ELSE [form |-> "bare", ok |-> FALSE, value |-> answer, reason |-> "none",
          invoked |-> <<AdapterCall(method, args, 0)>>, raised |-> "none",
          core_reference |-> FALSE]

\* the methods that unpack a device and hand it to the adapter method of their
\* own name: get_ofp_device_info, reconcile_device, disable_device,
\* reenable_device, reboot_device
DeviceRequests ==
    {"get_ofp_device_info", "reconcile_device", "disable_device", "reenable_device",
     "reboot_device"}

device_request(method, device, answer) ==
    IF device # AbsentArg
    THEN Forward(method, <<Unpack(device)>>, answer)
    ELSE Error("INVALID_PARAMETERS", "device-invalid")

start_omci_test(device, omcitestrequest, answer) ==
    IF device = AbsentArg THEN Error("INVALID_PARAMETERS", "device-invalid")
    ELSE IF omcitestrequest = AbsentArg
    THEN Error("INVALID_PARAMETERS", "omcitestrequest-invalid")
    ELSE Forward("start_omci_test", <<Unpack(device), "uuid">>, answer)

\* adopt_device: the core reference of the device is updated before the adapter
\* is called when the request names the topic it came from
adopt_device(device, from_topic, answer) ==
    IF device # AbsentArg
    THEN [Forward("adopt_device", <<Unpack(device)>>, answer)
              EXCEPT !.core_reference = from_topic]
    ELSE Error("INVALID_PARAMETERS", "device-invalid")

abandon_device(device, answer) == ForwardBare("abandon_device", <<device>>, answer)

update_pm_config(device, pm_configs, answer) ==
    IF device = AbsentArg THEN Error("INVALID_PARAMETERS", "device-invalid")
    ELSE Forward("update_pm_config",
                 <<Unpack(device),
                   IF pm_configs # AbsentArg THEN Unpack(pm_configs) ELSE "PmConfigs()">>,
                 answer)

\* enable_port and disable_port: the port is unpacked and the packed one is
\* handed on
port_request(method, device_id, port, answer) ==
    IF device_id = AbsentArg THEN Error("INVALID_PARAMETER", "device")
    ELSE IF port = AbsentArg THEN Error("INVALID_PARAMETERS", "port-invalid")
    ELSE Forward(method, <<device_id, port>>, answer)

enable_port(device_id, port, answer) == port_request("enable_port", device_id, port, answer)

disable_port(device_id, port, answer) == port_request("disable_port", device_id, port, answer)

process_inter_adapter_message(msg, header_type, answer) ==
    IF msg = AbsentArg THEN Error("INVALID_PARAMETERS", "msg-invalid")
    ELSE LET max_retry == IF header_type = ONU_IND_REQUEST THEN 10 ELSE 0
             r == Forward("process_inter_adapter_message", <<Unpack(msg)>>, answer)
         IN  [r EXCEPT !.invoked[1].max_retry = max_retry]

\* receive_packet_out: the body is a try block whose handler logs any exception
\* and returns nothing
receive_packet_out(deviceId, outPort, packet, answer) ==
    IF deviceId = AbsentArg THEN Error("INVALID_PARAMETERS", "deviceid-invalid")
    ELSE IF outPort = AbsentArg THEN Error("INVALID_PARAMETERS", "outport-invalid")
    ELSE IF packet = AbsentArg THEN Error("INVALID_PARAMETERS", "packet-invalid")
    ELSE LET r == Forward("receive_packet_out",
                          <<Unpack(deviceId), Unpack(outPort), Unpack(packet)>>, answer)
         IN  IF r.raised = "none" THEN r ELSE NoReturn(r.invoked, "none")

simulate_alarm(device, request, answer) ==
    IF device = AbsentArg THEN Error("INVALID_PARAMETERS", "device-invalid")
    ELSE IF request = AbsentArg
    THEN Error("INVALID_PARAMETERS", "simulate-alarm-request-invalid")
    ELSE Forward("simulate_alarm", <<Unpack(device), Unpack(request)>>, answer)

InitFacade ==
    /\ SyncIdle
    /\ DbIdle
    /\ RegIdle
    /\ TmplIdle
    /\ LazyIdle
    /\ AgentIdle
    /\ SchedIdle
    /\ MibIdle
    /\ AdvIdle
    /\ FacadeIdle

\* the request and what became of it
FacadeCalled(op, args, answer, r) ==
    /\ facade_result' = [op |-> op, args |-> args, answer |-> answer, form |-> r.form,
                         ok |-> r.ok, value |-> r.value, reason |-> r.reason,
                         invoked |-> r.invoked, raised |-> r.raised,
                         core_reference |-> r.core_reference]
    /\ UNCHANGED <<basevars, regvars, tmplvars, lazyvars, agentvars, schedvars, mibvars,
                   advvars>>

StartOmciTest ==
    \E device \in FacadeArgs, omcitestrequest \in FacadeArgs, answer \in AdapterAnswers :
        FacadeCalled("start_omci_test", <<device, omcitestrequest>>, answer,
                     start_omci_test(device, omcitestrequest, answer))

AdoptDevice ==
    \E device \in FacadeArgs, from_topic \in BOOLEAN, answer \in AdapterAnswers :
        FacadeCalled("adopt_device", <<device>>, answer,
                     adopt_device(device, from_topic, answer))

DeviceRequest ==
    \E method \in DeviceRequests, device \in FacadeArgs, answer \in AdapterAnswers :
        FacadeCalled(method, <<device>>, answer, device_request(method, device, answer))

AbandonDevice ==
    \E device \in FacadeArgs, answer \in AdapterAnswers :
        FacadeCalled("abandon_device", <<device>>, answer, abandon_device(device, answer))

UpdatePmConfig ==
    \E device \in FacadeArgs, pm_configs \in FacadeArgs, answer \in AdapterAnswers :
        FacadeCalled("update_pm_config", <<device, pm_configs>>, answer,
                     update_pm_config(device, pm_configs, answer))

EnablePort ==
    \E device_id \in FacadeArgs, port \in FacadeArgs, answer \in AdapterAnswers :
        FacadeCalled("enable_port", <<device_id, port>>, answer,
                     enable_port(device_id, port, answer))

DisablePort ==
    \E device_id \in FacadeArgs, port \in FacadeArgs, answer \in AdapterAnswers :
        FacadeCalled("disable_port", <<device_id, port>>, answer,
                     disable_port(device_id, port, answer))

ProcessInterAdapterMessage ==
    \E msg \in FacadeArgs, header_type \in HeaderTypes, answer \in AdapterAnswers :
        FacadeCalled("process_inter_adapter_message", <<msg>>, answer,
                     process_inter_adapter_message(msg, header_type, answer))

ReceivePacketOut ==
    \E deviceId \in FacadeArgs, outPort \in FacadeArgs, packet \in FacadeArgs,
       answer \in AdapterAnswers :
        FacadeCalled("receive_packet_out", <<deviceId, outPort, packet>>, answer,
                     receive_packet_out(deviceId, outPort, packet, answer))

SimulateAlarm ==
    \E device \in FacadeArgs, request \in FacadeArgs, answer \in AdapterAnswers :
        FacadeCalled("simulate_alarm", <<device, request>>, answer,
                     simulate_alarm(device, request, answer))

NextFacade ==
    \/ StartOmciTest
    \/ AdoptDevice
    \/ DeviceRequest
    \/ AbandonDevice
    \/ UpdatePmConfig
    \/ EnablePort
    \/ DisablePort
    \/ ProcessInterAdapterMessage
    \/ ReceivePacketOut
    \/ SimulateAlarm

SpecFacade == InitFacade /\ [][NextFacade]_vars

\* ================================================================== claims
\* alarm number n is bit n counted from the high end of the 224-bit bitmap
HasAlarm(bitmap, n) == (223 - n) \in bitmap

\* the alarm numbers 0..223 a bitmap reports as raised
AlarmsOf(bitmap) == {223 - p : p \in bitmap} \cap (0..223)

\* the events a change of an instance's bitmap from b0 to b1 calls for
EventsFor(key, b0, b1) ==
    {[kind |-> "raised", class_id |-> key[1], entity_id |-> key[2], alarm_number |-> n] :
        n \in AlarmsOf(b1) \ AlarmsOf(b0)}
    \cup
    {[kind |-> "cleared", class_id |-> key[1], entity_id |-> key[2], alarm_number |-> n] :
        n \in AlarmsOf(b0) \ AlarmsOf(b1)}

RaisedOnly(key) ==
    {[kind |-> "raised", class_id |-> key[1], entity_id |-> key[2], alarm_number |-> 0]}
ClearedOnly(key) ==
    {[kind |-> "cleared", class_id |-> key[1], entity_id |-> key[2], alarm_number |-> 0]}

\* the synchronizer after on_alarm_notification has handled, without a store
\* failure, a notification delivered in the current state
Notified(key, bitmap, seq_no) ==
    on_alarm_notification(Self, key[1], key[2], bitmap, seq_no, "ok")

\* C1 as stated: a notification with only alarm bit 0 set, arriving when the
\* stored bitmap of the instance is 0, persists the bitmap and dispatches
\* exactly one 'raised' event for alarm number 0 and nothing else; a following
\* notification with bitmap 0 dispatches exactly one 'cleared' event for alarm
\* number 0 and nothing else, and the stored bitmap becomes 0.
C1_AsStated ==
    [][\A key \in Keys, seq_no \in SeqNos :
        /\ (Stored(db, key) = {} /\ Notification(key[1], key[2], {223}, seq_no, "ok"))
              => (db'[key] = {223} /\ events' = RaisedOnly(key))
        /\ (Stored(db, key) = {223} /\ Notification(key[1], key[2], {}, seq_no, "ok"))
              => (db'[key] = {} /\ events' = ClearedOnly(key))]_vars

\* C1 (amended): the same, for a synchronizer whose alarm manager has been
\* registered with set_alarm_params; without one both bitmaps are persisted
\* and no event is dispatched.
C1_ScenarioC ==
    "Alarm_Notification" \in subscriptions =>
        \A key \in Keys, seq_no \in SeqNos, next_seq_no \in SeqNos :
            Stored(db, key) = {} =>
                LET r1 == Notified(key, {223}, seq_no)
                    r2 == on_alarm_notification([r1 EXCEPT !.events = {}], key[1], key[2],
                                                {}, next_seq_no, "ok")
                IN /\ r1.db[key] = {223}
                   /\ r1.events = IF alarm_manager THEN RaisedOnly(key) ELSE {}
                   /\ r2.db[key] = {}
                   /\ r2.events = IF alarm_manager THEN ClearedOnly(key) ELSE {}

\* the raise of alarm 0 has been followed by its clear: the last handler
\* dispatched the single 'cleared' event and the stored bitmap is 0 again
C1_Witness ==
    \E key \in Keys :
        /\ alarm_manager
        /\ db[key] = {}
        /\ events = ClearedOnly(key)

\* C2: a synchronizer with an alarm manager keeps the persisted bitmap of
\* every instance equal to the last update applied, and the alarms whose most
\* recent event is 'raised' equal to the bits set in it: every step dispatches
\* exactly the events of the change it makes to the persisted bitmap, and a
\* notification that dispatches events leaves its bitmap persisted, also when
\* the read of the previous entry or the write of the new bitmap fails.
C2_PersistedBitmapIsTruth ==
    [][alarm_manager =>
        /\ \A key \in Keys :
              {ev \in events' : <<ev.class_id, ev.entity_id>> = key}
                  = EventsFor(key, Stored(db, key), Stored(db', key))
        /\ \A key \in Keys, bitmap \in Bitmaps, seq_no \in SeqNos, fault \in Faults :
              (Notification(key[1], key[2], bitmap, seq_no, fault) /\ events' # {})
                  => db'[key] = bitmap]_vars

\* C3: when a resync task completes with differences, reconcile_alarm_table
\* leaves every device-only entry and every entry with a differing bitmap
\* stored with the device's bitmap, and every local-only entry cleared (its
\* raised alarms get a 'cleared' event) and deleted from the local store.
C3_ReconcileAgrees ==
    [][\A onu_db \in AlarmTables :
        (TaskSuccessWith(onu_db) /\ ~NoDifference(onu_db, db)) =>
            \A key \in Keys :
                /\ (onu_db[key] # NoEntry /\ db[key] # onu_db[key])
                      => db'[key] = onu_db[key]
                /\ (onu_db[key] = NoEntry /\ db[key] # NoEntry)
                      => /\ db'[key] = NoEntry
                         /\ alarm_manager => EventsFor(key, db[key], {}) \subseteq events']_vars

\* C4: stop() stops the current resync task, drops both subscriptions and
\* leaves no timer and no task deferred of the synchronizer pending, so that
\* nothing scheduled before stop() can fire after it.
C4_StopCancelsEverything ==
    [][Stop =>
        /\ state' = "disabled"
        /\ subscriptions' = {}
        /\ ~current_task'
        /\ deferred' \notin TimerTriggers
        /\ \A trig \in TimerTriggers : orphans'[trig] = 0
        /\ tasks' = 0]_vars

AllowedMoves ==
    {<<"start", "disabled", "starting">>,
     <<"audit_alarm", "starting", "auditing">>,
     <<"sync_alarm", "starting", "in_sync">>,
     <<"success", "auditing", "in_sync">>,
     <<"audit_alarm", "auditing", "auditing">>,
     <<"failure", "auditing", "auditing">>,
     <<"audit_alarm", "in_sync", "auditing">>}
        \cup {<<"stop", st, "disabled">> : st \in DEFAULT_STATES}

\* the step is the call of start() or stop(), or a timer delivering trig
ByTrigger(trig) ==
    \/ trig = "start" /\ Start
    \/ trig = "stop" /\ Stop
    \/ trig \in TimerTriggers /\ deferred = trig /\ FireDeferred
    \/ trig \in TimerTriggers /\ FireOrphanOf(trig)

Scheduled(r, trig) ==
    /\ r.deferred = trig
    /\ r.orphans = IF deferred \in TimerTriggers
                   THEN [orphans EXCEPT ![deferred] = @ + 1]
                   ELSE orphans

NothingScheduled(r) == r.deferred = deferred /\ r.orphans = orphans

\* C6 as stated: every autonomous notification increments the expected
\* sequence counter; if the result differs from the notification's sequence
\* number an out-of-cycle audit is scheduled; in either case the bitmap is
\* persisted and its raise/clear events are dispatched in the same step.
C6_AsStated ==
    [][\A key \in Keys, bitmap \in Bitmaps, seq_no \in SeqNos :
        Notification(key[1], key[2], bitmap, seq_no, "ok") =>
            LET expected == IF last_alarm_sequence_value = 255 THEN 1
                            ELSE last_alarm_sequence_value + 1
            IN /\ last_alarm_sequence_value' = expected
               /\ expected # seq_no =>
                    Scheduled([deferred |-> deferred', orphans |-> orphans'], "audit_alarm")
               /\ db'[key] = bitmap
               /\ events' = EventsFor(key, Stored(db, key), bitmap)]_vars

\* C6 (amended): a notification with sequence number > 0 increments the
\* expected counter (255 wraps to 1) and, if the result differs from the
\* notification's number and audit_delay > 0, schedules audit_alarm at once;
\* a notification with sequence number 0 leaves the counter alone and nothing
\* is scheduled when the numbers match or audit_delay = 0.  This is so also
\* when the store fails, and the state is kept.  When the store answers, the
\* bitmap is persisted in the same step and, if an alarm manager is
\* registered, the raise/clear events are dispatched in it.
C6_SequenceCheck ==
    "Alarm_Notification" \in subscriptions =>
        \A key \in Keys, bitmap \in Bitmaps, seq_no \in SeqNos, fault \in Faults :
            LET r == on_alarm_notification(Self, key[1], key[2], bitmap, seq_no, fault)
                expected == IF seq_no = 0 THEN last_alarm_sequence_value
                            ELSE IF last_alarm_sequence_value = 255 THEN 1
                            ELSE last_alarm_sequence_value + 1
                audit == seq_no > 0 /\ expected # seq_no /\ audit_delay > 0
            IN /\ r.seq = expected
               /\ IF audit THEN Scheduled(r, "audit_alarm") ELSE NothingScheduled(r)
               /\ r.state = state
               /\ fault = "ok" =>
                    /\ ~r.raised
                    /\ r.db[key] = bitmap
                    /\ r.events = IF alarm_manager
                                  THEN EventsFor(key, Stored(db, key), bitmap) ELSE {}

\* a notification whose number did not match replaced the pending first audit
\* by an immediate one, and its bitmap was persisted and its event dispatched
C6_Witness ==
    /\ state = "starting"
    /\ last_alarm_sequence_value = 1
    /\ deferred = "audit_alarm"
    /\ orphans["audit_alarm"] = 1
    /\ \E key \in Keys : db[key] = {223} /\ events = RaisedOnly(key)

\* C7: when the resync task completes in 'auditing' the synchronizer makes
\* progress: without differences the 'success' trigger is scheduled, with
\* differences the store is reconciled and 'audit_alarm' is scheduled; it is
\* never in 'auditing' with no task in flight and no timer pending.
C7_AuditMakesProgress ==
    [][/\ \A onu_db \in AlarmTables :
            (state = "auditing" /\ TaskSuccessWith(onu_db)) =>
                IF NoDifference(onu_db, db)
                THEN deferred' = "success"
                ELSE deferred' = "audit_alarm"
       /\ state' = "auditing" =>
            \/ tasks' > 0
            \/ deferred' \in TimerTriggers
            \/ \E trig \in TimerTriggers : orphans'[trig] > 0]_vars

TaskDone == [Self EXCEPT !.tasks = @ - 1]

C9_DiffIsSymmetricDifference ==
    diff_done =>
        /\ diff_raised \cap diff_cleared = {}
        /\ diff_raised \cup diff_cleared =
              {n \in 0..223 : HasAlarm(diff_prev, n) # HasAlarm(diff_new, n)}
        /\ diff_prev = diff_new => (diff_raised = {} /\ diff_cleared = {})

\* a comparison in which one alarm was raised, another cleared and a third kept
C9_Witness ==
    /\ diff_done
    /\ diff_raised # {}
    /\ diff_cleared # {}
    /\ diff_prev \cap diff_new # {}

\* C10: the last-alarm-sequence value stays in 0..255; incrementing maps 255
\* to 1 and every other value v to v + 1; the value becomes 0 only by
\* reset_alarm_sequence.
C10_SequenceWraps ==
    [][/\ last_alarm_sequence_value \in 0..255
       /\ last_alarm_sequence_value' \in 0..255
       /\ IncrementAlarmSequence =>
            last_alarm_sequence_value' =
                IF last_alarm_sequence_value = 255 THEN 1
                ELSE last_alarm_sequence_value + 1
       /\ (last_alarm_sequence_value' = 0 /\ last_alarm_sequence_value # 0)
            => ResetAlarmSequence]_vars

\* the counter has been incremented up to its largest value
C10_Witness == last_alarm_sequence_value = 255

\* ------------------------------------------------ the entity databases
\* the instances a class holds in the store, whichever way the database keeps them
InstanceIdsOf(kind, kv, device_id, class_id) ==
    IF kind = "MibDbExternal"
    THEN IF ClassPath(device_id, class_id) \in DOMAIN kv
         THEN DOMAIN kv[ClassPath(device_id, class_id)].instances
         ELSE {}
    ELSE {i \in DbInstanceIds : InstancePath(device_id, class_id, i) \in DOMAIN kv}

StoredInstance(kind, kv, device_id, class_id, instance_id) ==
    IF kind = "MibDbExternal"
    THEN kv[ClassPath(device_id, class_id)].instances[instance_id]
    ELSE kv[InstancePath(device_id, class_id, instance_id)]

attribute_to_string(kind, class_id, attr_name, value) ==
    IF kind = "MibDbExternal"
    THEN Mib_attribute_to_string(class_id, attr_name, value)
    ELSE Alarm_attribute_to_string(value)

\* the database as a call that ended with r leaves it
After(r) == [DbSelf EXCEPT !.kv = r.kv]

HasRoot(device_id) == DevicePath(device_id) \in DOMAIN kv_store
KeysOf(kv, device_id) == {k \in DOMAIN kv : k[1] = device_id}
ValidIds == {id \in DbClassIds \cup DbInstanceIds : InRange(id)}

\* C11: in a started database that holds device d, set(d, class_id,
\* instance_id, A) followed by query(d, class_id, instance_id) returns an
\* instance whose attributes hold every name of A with the value just
\* written, and query(d, class_id) and query(d) contain that same instance.
C11_SetThenQuery ==
    \A device_id \in DeviceIds, class_id \in DbClassIds \cap ValidIds,
       instance_id \in DbInstanceIds \cap ValidIds, attributes \in AttributesOf(db_kind) :
        (started /\ HasRoot(device_id)) =>
            LET r == set(DbSelf, device_id, class_id, instance_id, attributes)
                inst == query_instance(After(r), device_id, class_id, instance_id)
                cls == query_class(After(r), device_id, class_id)
                dev == query(After(r), device_id)
            IN  /\ r.raised = "none"
                /\ inst.raised = "none" /\ DOMAIN inst.ret # {}
                /\ \A name \in DOMAIN attributes :
                      /\ name \in DOMAIN inst.ret.attributes
                      /\ inst.ret.attributes[name] = attributes[name]
                /\ cls.raised = "none" /\ DOMAIN cls.ret # {}
                /\ instance_id \in DOMAIN cls.ret.instances
                /\ cls.ret.instances[instance_id] = inst.ret
                /\ dev.raised = "none" /\ DOMAIN dev.ret # {}
                /\ class_id \in DOMAIN dev.ret.classes
                /\ dev.ret.classes[class_id] = cls.ret

\* C12: set on an existing instance returns False and leaves the store as it
\* was when every supplied attribute equals the stored string; otherwise it
\* returns True, moves 'modified' on, keeps 'created' and keeps the stored
\* attributes the call did not supply.  A set that creates a class or an
\* instance returns True.
C12_SetReportsChange ==
    \A device_id \in DeviceIds, class_id \in DbClassIds \cap ValidIds,
       instance_id \in DbInstanceIds \cap ValidIds, attributes \in AttributesOf(db_kind) :
        LET r == set(DbSelf, device_id, class_id, instance_id, attributes)
            had == instance_id \in InstanceIdsOf(db_kind, kv_store, device_id, class_id)
            old == StoredInstance(db_kind, kv_store, device_id, class_id, instance_id)
            new == StoredInstance(db_kind, r.kv, device_id, class_id, instance_id)
            same == \A k \in DOMAIN attributes :
                        /\ k \in DOMAIN old.attributes
                        /\ old.attributes[k] =
                               attribute_to_string(db_kind, class_id, k, attributes[k])
        IN  (started /\ r.raised = "none") =>
                IF ~had THEN r.ret = TRUE
                ELSE IF same THEN r.ret = FALSE /\ r.kv = kv_store
                ELSE /\ r.ret = TRUE
                     /\ new.modified # old.modified
                     /\ new.created = old.created
                     /\ \A k \in DOMAIN old.attributes \ DOMAIN attributes :
                           /\ k \in DOMAIN new.attributes
                           /\ new.attributes[k] = old.attributes[k]

\* C13: delete of the last instance of a class also removes the class record
\* and the class entry of the device record; query(d, class_id) is then empty
\* and does not raise, and query(d) no longer lists the class.
C13_LastInstanceTakesClass ==
    \A device_id \in DeviceIds, class_id \in DbClassIds \cap ValidIds,
       instance_id \in DbInstanceIds \cap ValidIds :
        (/\ started /\ HasRoot(device_id)
         /\ InstanceIdsOf(db_kind, kv_store, device_id, class_id) = {instance_id}) =>
            LET r == delete(DbSelf, device_id, class_id, instance_id)
                cls == query_class(After(r), device_id, class_id)
                dev == query(After(r), device_id)
            IN  /\ r.raised = "none"
                /\ ClassPath(device_id, class_id) \notin DOMAIN r.kv
                /\ class_id \notin r.kv[DevicePath(device_id)].classes
                /\ cls.raised = "none" /\ DOMAIN cls.ret = {}
                /\ dev.raised = "none" /\ class_id \notin DOMAIN dev.ret.classes

\* C14: delete returns True exactly when the instance existed and the call
\* removed it; when the instance does not exist it returns False and changes
\* nothing, also when the class holds other instances.
C14_DeleteReportsRemoval ==
    \A device_id \in DeviceIds, class_id \in DbClassIds \cap ValidIds,
       instance_id \in DbInstanceIds \cap ValidIds :
        LET r == delete(DbSelf, device_id, class_id, instance_id)
            had == instance_id \in InstanceIdsOf(db_kind, kv_store, device_id, class_id)
            has == instance_id \in InstanceIdsOf(db_kind, r.kv, device_id, class_id)
        IN  (started /\ r.raised = "none") =>
                /\ r.ret = TRUE <=> (had /\ ~has)
                /\ ~had => (r.ret = FALSE /\ r.kv = kv_store)

\* C15: remove(device_id) leaves no key of the device in the store, and does
\* not raise when the device is not in the database.
C15_RemoveCascades ==
    \A device_id \in DeviceIds :
        started =>
            LET r == remove(DbSelf, device_id)
            IN  r.raised = "none" /\ KeysOf(r.kv, device_id) = {}

\* the fresh root record: created now, sync counter 0, no class
Fresh(kind, record, device_id, now) ==
    /\ record.device_id = device_id
    /\ record.created = time_to_string(now)
    /\ record.classes = {}
    /\ IF kind = "MibDbExternal"
       THEN record.mib_data_sync = 0
       ELSE record.last_alarm_sequence = 0

C17_SetRejects ==
    \A device_id \in DeviceIds, class_id \in DbClassIds, instance_id \in DbInstanceIds,
       attributes \in AttributesOf(db_kind) :
        LET r == set(DbSelf, device_id, class_id, instance_id, attributes)
        IN  /\ (~InRange(class_id) \/ ~InRange(instance_id)) =>
                  (r.raised = "ValueError" /\ r.kv = kv_store)
            /\ (~started /\ InRange(class_id) /\ InRange(instance_id)) =>
                  (r.raised = "DatabaseStateError" /\ r.kv = kv_store)

\* a set was refused by a stopped database that holds records
C17_Witness ==
    /\ db_result = [op |-> "set", raised |-> "DatabaseStateError"]
    /\ ~started
    /\ HasRoot("onu")

\* C18: query on a device without root record raises KeyError, whether it
\* asks for the device, a class or an instance; query on a device with a root
\* record for an absent class, instance or attribute returns an empty result
\* and does not raise.
C18_QueryUnknownDevice ==
    \A device_id \in DeviceIds, class_id \in DbClassIds \cap ValidIds,
       instance_id \in DbInstanceIds \cap ValidIds :
        LET dev == query(DbSelf, device_id)
            cls == query_class(DbSelf, device_id, class_id)
            inst == query_instance(DbSelf, device_id, class_id, instance_id)
            attr == query_attributes(DbSelf, device_id, class_id, instance_id, {"version"})
        IN  started =>
                IF ~HasRoot(device_id)
                THEN /\ dev.raised = "KeyError"
                     /\ cls.raised = "KeyError"
                     /\ inst.raised = "KeyError"
                ELSE /\ InstanceIdsOf(db_kind, kv_store, device_id, class_id) = {} =>
                           (cls.raised = "none" /\ DOMAIN cls.ret = {})
                     /\ instance_id \notin InstanceIdsOf(db_kind, kv_store, device_id, class_id) =>
                           (inst.raised = "none" /\ DOMAIN inst.ret = {})
                     /\ attr.raised = "none" /\ DOMAIN attr.ret = {}

\* C19: on_mib_reset(device_id) leaves no class or instance record of the
\* device in the store and a root record with MIB data sync 0 and with the
\* creation time and last sync time it had before.
C19_ResetKeepsBookkeeping ==
    \A device_id \in DeviceIds :
        (db_kind = "MibDbExternal" /\ started /\ HasRoot(device_id)) =>
            LET r == Mib_on_mib_reset(DbSelf, device_id)
                path == DevicePath(device_id)
            IN  /\ r.raised = "none"
                /\ KeysOf(r.kv, device_id) = {path}
                /\ r.kv[path].mib_data_sync = 0
                /\ r.kv[path].created = kv_store[path].created
                /\ r.kv[path].last_sync_time = kv_store[path].last_sync_time

\* C20: save_mib_data_sync(d, v) with v in 0..255 is read back by
\* get_mib_data_sync(d), a value outside 0..255 is refused and the store is
\* left as it was; save_alarm_last_sync(d, n) is read back by
\* get_alarm_last_sync(d); a save changes no class or instance record; a get
\* returns None for a device without record.
C20_AccessorsRoundTrip ==
    \A device_id \in DeviceIds, value \in SyncValues :
        LET path == DevicePath(device_id)
            save == IF db_kind = "MibDbExternal"
                    THEN Mib_save_mib_data_sync(DbSelf, device_id, value)
                    ELSE Alarm_save_alarm_last_sync(DbSelf, device_id, value)
            get(self) == IF db_kind = "MibDbExternal"
                         THEN Mib_get_mib_data_sync(self, device_id)
                         ELSE Alarm_get_alarm_last_sync(self, device_id)
            in_range == db_kind = "MibDbExternal" => (0 <= value /\ value <= MaxMibDataSync)
        IN  IF ~HasRoot(device_id)
            THEN get(DbSelf).raised = "none" /\ get(DbSelf).ret = None
            ELSE IF ~in_range
            THEN save.raised = "ValueError" /\ save.kv = kv_store
            ELSE /\ save.raised = "none"
                 /\ get(After(save)).raised = "none"
                 /\ get(After(save)).ret = value
                 /\ \A k \in DOMAIN kv_store \ {path} :
                       k \in DOMAIN save.kv /\ save.kv[k] = kv_store[k]

\* ---------------------------------------------------- CoreProxy.register
\* C29: register sends an adapter given as replica 0 of 0 as replica 1 of 1 and
\* an adapter with 1 <= currentReplica <= totalReplicas as it is; it raises,
\* without invoking the Register RPC, when currentReplica > totalReplicas, when
\* totalReplicas = 0 and currentReplica # 0, and when currentReplica = 0 and
\* totalReplicas # 0.
C29_Register ==
    reg_result.op = "register" =>
        LET c == reg_result.given.currentReplica
            t == reg_result.given.totalReplicas
        IN /\ (c = 0 /\ t = 0) =>
                /\ reg_result.invoked
                /\ adapter = [currentReplica |-> 1, totalReplicas |-> 1]
           /\ (1 <= c /\ c <= t) =>
                /\ reg_result.invoked
                /\ adapter = reg_result.given
           /\ (c > t \/ (t = 0 /\ c # 0) \/ (c = 0 /\ t # 0)) =>
                /\ ~reg_result.invoked
                /\ reg_result.raised \notin {"none", "registration-exception"}
                /\ adapter = reg_result.given

\* an adapter that set neither number has been registered as replica 1 of 1
C29_Witness ==
    /\ reg_result.op = "register"
    /\ reg_result.given = [currentReplica |-> 0, totalReplicas |-> 0]
    /\ reg_result.invoked
    /\ reg_result.raised = "none"
    /\ adapter = [currentReplica |-> 1, totalReplicas |-> 1]

\* ------------------------------------------------------- MibTemplateTask
\* the three values the template is looked up by, as the task derives them
LookupValues(o) ==
    << rstrip(o.vendor_id), rstrip(o.equipment_id),
       IF o.is_active[1] = 1 THEN rstrip(o.version[1])
       ELSE IF o.is_active[2] = 1 THEN rstrip(o.version[2]) ELSE <<>> >>

\* C28: the task resolves its deferred with a new database instance when a
\* template is stored for the ONU's vendor id, equipment id and active software
\* version, and with None when none is stored or one of the three values is
\* empty; a failed MIB reset or an OMCI timeout fails the deferred, and no
\* template is looked up after a failed MIB reset.
C28_TemplateOrNone ==
    template_result.op = "create_template_instance" =>
        LET d == template_result.deferred
            answered == onu.reset = "success" /\ onu.timeout_at = 0
            complete == \A i \in 1..3 : LookupValues(onu)[i] # <<>>
        IN /\ (answered /\ complete /\ onu.template_stored) =>
                (d.how = "callback" /\ d.value = "instance")
           /\ (answered /\ (~complete \/ ~onu.template_stored)) =>
                (d.how = "callback" /\ d.value = "None")
           /\ (onu.reset # "success" \/ onu.timeout_at # 0) => d.how = "errback"
           /\ (onu.reset # "success" /\ onu.timeout_at \notin {1}) => d.lookups = 0

\* ---------------------------------------------------- MibDbLazyWriteDict
\* the calls that change a device's MIB
LazyMutations == {"set", "delete", "on_mib_reset", "save_mib_data_sync", "remove"}

\* the last call changed the MIB of the device: set and delete say so by
\* what they return
Mutated ==
    /\ lazy_result.op \in LazyMutations
    /\ lazy_result.raised = "none"
    /\ lazy_result.op \in {"set", "delete"} => lazy_result.ret = TRUE

\* C21: every mutation of a device (set, delete, on_mib_reset,
\* save_mib_data_sync, remove) leaves the device's dirty flag set; a tick hands
\* the device to the remote store exactly when the flag is set, the flag is
\* clear once the write has been made, and a tick on a clean device issues no
\* remote request.
C21_DirtyThenFlushed ==
    /\ Mutated => \A d \in DeviceIds : d \in DOMAIN lazymetadata /\ lazymetadata[d].dirty_db
    /\ (lazy_result.op = "tick" /\ lazy_result.raised = "none") =>
         /\ lazy_result.dirty_db <=> lazy_result.ret \in {"set", "delete"}
         /\ (lazy_result.dirty_db /\ ~lazy_result.pending_delete) => lazy_result.ret = "set"
    /\ (lazy_result.op = "set_done" /\ lazy_result.raised = "none") =>
         \A d \in DeviceIds : d \in DOMAIN lazymetadata /\ ~lazymetadata[d].dirty_db

\* C22: a tick on a device that was removed (its pending-delete flag is set)
\* issues the delete of the remote record and no write, also when the remove
\* came while a write of the device was in flight; when the delete has been
\* made the remote record is gone and the metadata with its LoopingCall, which
\* was stopped, is dropped.
C22_RemovedThenDeleted ==
    /\ (lazy_result.op = "tick" /\ lazy_result.pending_delete) => lazy_result.ret = "delete"
    /\ (lazy_result.op = "delete_done" /\ lazy_result.raised = "none") =>
         \A d \in DeviceIds : d \notin DOMAIN remote /\ d \notin DOMAIN lazymetadata

\* the ids the agent holds, before and after a step
IdsBefore == device_ids(AgentSelf).ret
IdsAfter == DOMAIN devices'

\* C23: add_device(device_id) returns a handle and makes device_id a member of
\* device_ids(); for an id that is present it returns the handle the id has and
\* constructs no second entry; get_device returns the handle of a present
\* device and raises KeyError for an absent one; device_ids() is the set of
\* ids added and not yet removed with cleanup: add_device adds its id to it,
\* remove_device with cleanup takes its id out of it and nothing else changes it.
C23_Step ==
    LET d == agent_result'.device_id
        op == agent_result'.op
        ret == agent_result'.ret
    IN  /\ op = "add_device" =>
            /\ agent_result'.raised = "none"
            /\ ret = devices'[d]
            /\ IdsAfter = IdsBefore \cup {d}
            /\ d \in IdsBefore => ret = devices[d] /\ entries' = entries
            /\ d \notin IdsBefore =>
                   /\ Len(entries') = Len(entries) + 1
                   /\ \A other \in IdsBefore : devices'[other] # ret
        /\ op = "get_device" =>
            /\ IdsAfter = IdsBefore
            /\ IF d \in IdsBefore
               THEN agent_result'.raised = "none" /\ ret = devices[d]
               ELSE agent_result'.raised = "KeyError"
        /\ op = "remove_device" =>
            IdsAfter = IF agent_result'.cleanup THEN IdsBefore \ {d} ELSE IdsBefore
        /\ op = "device_ids" => ret = IdsBefore /\ IdsAfter = IdsBefore
        /\ op \in {"start", "stop", "device_start", "device_write"} => IdsAfter = IdsBefore

C23_DeviceMap == [][C23_Step]_vars

\* add_device of an id that was removed with cleanup and added again answered
\* with the handle the id has
C23_Witness ==
    /\ agent_result.op = "add_device"
    /\ agent_result.present
    /\ agent_result.ret = 2
    /\ Len(entries) = 2

\* C24: remove_device(device_id, cleanup=True) stops the device, takes it out
\* of the device map and removes the record of the device with all its classes
\* and instances from the database; with cleanup=False it stops the device and
\* keeps the map and the records of the database; for an unknown id it changes
\* nothing.
C24_Step ==
    LET d == agent_result'.device_id
    IN  agent_result'.op = "remove_device" =>
            IF d \notin IdsBefore
            THEN devices' = devices /\ entries' = entries /\ kv_store' = kv_store
            ELSE /\ ~entries'[devices[d]].active
                 /\ IF agent_result'.cleanup
                    THEN d \notin IdsAfter /\ KeysOf(kv_store', d) = {}
                    ELSE devices' = devices /\ kv_store' = kv_store

C24_RemoveDeviceCleansUp == [][C24_Step]_vars

Exclusive(task) == task_table[task].exclusive
Running(task) == task_table[task].state = "running"
\* the task was queued and has not begun
Waiting(task) ==
    IF task \in DOMAIN task_table THEN task_table[task].state = "pending" ELSE FALSE

C26_Step ==
    /\ sched_result'.op \in {"stop", "timeout"} =>
        LET task == sched_result'.task
        IN  /\ task \notin running_queue'
            /\ task_table'[task].future =
                   (IF sched_result'.op = "stop" THEN "cancelled" ELSE "timeout")
            /\ pending_queue' # <<>> => running_queue' # {}
            /\ \A other \in running_queue' : task_table'[other].future = "none"
    /\ sched_result'.op = "send" =>
        task_table[sched_result'.task].future \notin {"cancelled", "timeout"}

\* C26: a running task that is stopped or cancelled, also when its cleanup
\* raises, or that exceeds its timeout (its future then fails with a timeout
\* error) leaves the active slot of the device, and the next queued task
\* eventually starts: no stopped or timed-out task keeps the channel.
C26_Released ==
    /\ [][C26_Step]_vars
    /\ \A task \in 1..MaxQueued : Waiting(task) ~> ~Waiting(task)

C30_Advertised ==
    /\ state \in DEFAULT_STATES
    /\ advertised.op # "none" /\ advertised.entered # "none" =>
        /\ state = advertised.entered
        /\ advertised.enabled =>
               advertised.events = <<[event |-> "state_change", info |-> state]>>

\* C31: on entering 'starting' the synchronizer schedules audit_alarm after
\* timeout_delay when audit_delay > 0 and otherwise sync_alarm (at once), which
\* moves it to 'in_sync' without an audit; on entering 'in_sync' it schedules
\* audit_alarm after audit_delay when audit_delay > 0 and no timer when
\* audit_delay = 0, and an explicit audit_alarm request then still moves it
\* from 'in_sync' to 'auditing'.
C31_Step ==
    /\ (state # "starting" /\ state' = "starting") =>
            IF audit_delay > 0
            THEN deferred' = "audit_alarm" /\ deferred_delay' = DEFAULT_TIMEOUT_RETRY
            ELSE deferred' = "sync_alarm" /\ deferred_delay' = 0
    /\ (state = "starting" /\ deferred = "sync_alarm" /\ AdvFireDeferred) =>
            state' = "in_sync" /\ tasks' = tasks /\ ~current_task'
    /\ (state # "in_sync" /\ state' = "in_sync") =>
            IF audit_delay > 0
            THEN deferred' = "audit_alarm" /\ deferred_delay' = audit_delay
            ELSE deferred' \notin TimerTriggers
    /\ (state = "in_sync" /\ audit_delay = 0 /\ AdvAuditAlarm) => state' = "auditing"

C31_FirstAuditScheduled == [][C31_Step]_vars

\* C32: at most one resync task of the synchronizer is queued or running at
\* any time: when on_enter_auditing creates a task (the re-entry of 'auditing'
\* by an out-of-cycle audit_alarm included) no earlier task is still pending,
\* and stop() leaves no task of the synchronizer outstanding.
C32_Step ==
    /\ tasks' <= 1
    /\ tasks' > tasks => tasks = 0
    /\ AdvStop => tasks' = 0

C32_AtMostOneTask == [][C32_Step]_vars

\* the write 'request' of _sync completes in this step
WriteCompletes(request) ==
    /\ request.op = "set"
    /\ request \in inflight
    /\ request \notin inflight'
    /\ lazy_result'.op = "set_done"
    /\ lazy_result'.raised = "none"

\* the last call set the dirty flag of a device whose write was in flight
MutatedDuringWrite(request) ==
    /\ lazy_result.op \in {"on_mib_reset", "save_mib_data_sync"}
    /\ lazy_result.raised = "none"
    /\ request.device_id \in DOMAIN lazy_data
    /\ dump_to_json(lazy_data, request.device_id) # request.json

\* C33: no mutation is lost by an overlapping flush: a device that is mutated
\* (dirty flag set) after _sync has serialized it and before the remote write
\* completes is still dirty when the write completes, so that a later tick
\* writes the newer content.
C33_Step ==
    \A request \in inflight :
        (MutatedDuringWrite(request) /\ WriteCompletes(request)) =>
            /\ request.device_id \in DOMAIN lazymetadata'
            /\ lazymetadata'[request.device_id].dirty_db

C33_NoLostMutation == [][C33_Step]_vars

\* LoopingCalls of _check_dirty of the device that are running
RunningTickers(device_id) ==
    IF device_id \in DOMAIN tickers THEN tickers[device_id] ELSE 0

\* C34: each device id has at most one running ticker at any time (a repeated
\* add of the device, with or without overwrite, leaves no second ticker), a
\* ticker runs only for a device that has lazy metadata, and when the removal
\* of the device has been flushed no ticker of it remains.
C34_OneTicker ==
    \A device_id \in DeviceIds :
        /\ RunningTickers(device_id) <= 1
        /\ RunningTickers(device_id) > 0 => device_id \in DOMAIN lazymetadata
        /\ (lazy_result.op = "delete_done" /\ lazy_result.raised = "none") =>
                RunningTickers(device_id) = 0

\* the class ids the root record of the device points to (the class list is
\* kept as the set of its ids)
ClassList(device_id) == kv_store[DevicePath(device_id)].classes

HasClassRecord(device_id, class_id) == ClassPath(device_id, class_id) \in DOMAIN kv_store

\* C35: in MibDbExternal, whatever add, set, delete and on_mib_reset calls were
\* made on a device, the class list of the device's root record holds class_id
\* if and only if a class record of (device, class_id) is in the store, and
\* every class record in the store holds at least one instance.
C35_ClassListMatchesRecords ==
    db_kind = "MibDbExternal" =>
        \A device_id \in DeviceIds :
            HasRoot(device_id) =>
                \A class_id \in DbClassIds :
                    /\ class_id \in ClassList(device_id) <=> HasClassRecord(device_id, class_id)
                    /\ HasClassRecord(device_id, class_id) =>
                         DOMAIN kv_store[ClassPath(device_id, class_id)].instances # {}

\* the store keys of the records of a device: its root and its classes (a
\* class record holds the instances of the class)
RecordKeys(device_id) ==
    {DevicePath(device_id)} \cup {ClassPath(device_id, class_id) : class_id \in DbClassIds}

FrameCalls == {"set", "delete", "on_mib_reset", "save_mib_data_sync", "remove"}

\* the device was added: the record under its root key is its device record
AddedDevice(device_id) ==
    /\ HasRoot(device_id)
    /\ "device_id" \in DOMAIN kv_store[DevicePath(device_id)]
    /\ kv_store[DevicePath(device_id)].device_id = device_id

\* C36: for distinct device ids d1 and d2, a set, delete, on_mib_reset,
\* save_mib_data_sync or remove on d1 leaves every record of a device d2 of
\* the database (root, classes, instances) as it was: no store key of d1 is a
\* store key of d2.
C36_Step ==
    \A d1, d2 \in FrameDeviceIds :
        (/\ d1 # d2
         /\ AddedDevice(d2)
         /\ db_result'.op \in FrameCalls
         /\ db_result'.device_id = d1) =>
            \A key \in RecordKeys(d2) \cap DOMAIN kv_store :
                /\ key \in DOMAIN kv_store'
                /\ kv_store'[key] = kv_store[key]

C36_OtherDeviceUntouched == [][C36_Step]_vars

\* C37: a Get-All-Alarms response received while the synchronizer is
\* subscribed and not 'disabled' resets the expected sequence counter to 0, so
\* that the next autonomous notification, which carries sequence number 1,
\* matches and schedules no out-of-cycle audit; a response received in
\* 'disabled' leaves the counter as it is.
C37_Step ==
    /\ (state # "disabled" /\ Response(TRUE)) => last_alarm_sequence_value' = 0
    /\ \A class_id \in AlarmClassIds, entity_id \in Entities, bitmap \in Bitmaps,
          fault \in Faults :
            (/\ last_alarm_sequence_value = 0
             /\ Notification(class_id, entity_id, bitmap, 1, fault)) =>
                /\ last_alarm_sequence_value' = 1
                /\ deferred' = deferred
                /\ deferred_delay' = deferred_delay
                /\ orphans' = orphans
    /\ \A is_get_all_alarms_response \in BOOLEAN :
            on_alarm_update_response([Self EXCEPT !.state = "disabled"],
                                     is_get_all_alarms_response).seq
                = last_alarm_sequence_value

C37_ResponseResetsCounter == [][C37_Step]_vars

\* a response has reset the counter that a notification with an unexpected
\* number had incremented: the out-of-cycle audit of that notification is
\* still pending
C37_Witness ==
    /\ state # "disabled"
    /\ "Get_ALARM_Get" \in subscriptions
    /\ last_alarm_sequence_value = 0
    /\ deferred = "audit_alarm"
    /\ deferred_delay = 0

\* the events the reconciliation of the device's table onu_db with the local
\* table calls for: device-only entries are stored, local-only entries are
\* cleared and deleted
ReconcileEvents(onu_db) ==
    UNION ({EventsFor(k, {}, onu_db[k]) : k \in OnuOnly(onu_db, db)}
           \cup {EventsFor(k, Stored(db, k), {}) : k \in OltOnly(onu_db, db)})

\* C38: an alarm notification of a class that is unknown to the device, does
\* not support alarm notifications or defines no alarms changes neither the
\* alarm database nor the expected sequence counter and dispatches no event;
\* the bitmap updates of an audit reconciliation (sequence number -1) change
\* the database and dispatch the events of the change (to a registered alarm
\* manager), but neither change the sequence counter nor schedule an audit.
C38_SequenceStateLeftAlone ==
    /\ "Alarm_Notification" \in subscriptions =>
        \A class_id \in OtherClassIds, entity_id \in Entities, bitmap \in Bitmaps,
           seq_no \in SeqNos, fault \in Faults :
            LET r == on_alarm_notification(Self, class_id, entity_id, bitmap, seq_no, fault)
            IN /\ r.db = db
               /\ r.seq = last_alarm_sequence_value
               /\ r.events = {}
               /\ NothingScheduled(r)
               /\ ~r.raised
    /\ (state = "auditing" /\ tasks > 0) =>
        \A onu_db \in AlarmTables :
            LET r == reconcile_alarm_table(Self, onu_db, db)
            IN /\ r.seq = last_alarm_sequence_value
               /\ NothingScheduled(r)
               /\ \A k \in OnuOnly(onu_db, db) : r.db[k] = onu_db[k]
               /\ \A k \in OltOnly(onu_db, db) : r.db[k] = NoEntry
               /\ r.events = IF alarm_manager THEN ReconcileEvents(onu_db) ELSE {}

\* a reconciliation stored the device's raised alarm and dispatched its event,
\* the re-run of the audit is scheduled and the counter a notification had
\* incremented is as it was
C38_Witness ==
    /\ state = "auditing"
    /\ deferred = "audit_alarm"
    /\ deferred_delay = ReconcileDelay
    /\ events # {}
    /\ last_alarm_sequence_value = 1

\* ------------------------------------------------------- MibTemplateTask
\* the task was stopped while its generator waited for a response, and the
\* generator has ended since
LateCompleted ==
    /\ template_result.op = "late_completion"
    /\ template_task.stopped
    /\ template_task.generator = "finished"

RequiredArgs(op) ==
    IF op = "abandon_device" THEN {}
    ELSE IF op = "update_pm_config" THEN {1}
    ELSE 1..Len(facade_result.args)

\* the last request lacked an argument it needs
ArgumentMissing ==
    \E i \in RequiredArgs(facade_result.op) : facade_result.args[i] = AbsentArg

\* C40: a request of the facade that lacks a required argument returns
\* (False, Error with code INVALID_PARAMETERS) without a call of the adapter;
\* a request with every required argument calls the adapter's method exactly
\* once and returns (True, result) with the result of that call.
C40_RejectsOrForwards ==
    facade_result.op # "none" =>
        /\ ArgumentMissing =>
            /\ facade_result.form = "pair"
            /\ ~facade_result.ok
            /\ facade_result.value = "INVALID_PARAMETERS"
            /\ facade_result.invoked = <<>>
            /\ facade_result.raised = "none"
        /\ (~ArgumentMissing /\ facade_result.answer \in AdapterResults) =>
            /\ facade_result.form = "pair"
            /\ facade_result.ok
            /\ facade_result.value = facade_result.answer
            /\ Len(facade_result.invoked) = 1
            /\ facade_result.invoked[1].method = facade_result.op
            /\ facade_result.raised = "none"

====
